---- MODULE Spec2Model ----
(***************************************************************************)
(* A model of the mini-tds admin worker (src/unnamed/part_003, the         *)
(* section headed "src/worker.ts", lines 365-1368): the rule matcher and   *)
(* action executor, the process-wide config cache, the single-flight       *)
(* bootstrap, the authenticated admin API and the audit log.               *)
(***************************************************************************)
EXTENDS Integers, Sequences, FiniteSets, TLC

(***************************************************************************)
(* Bounds of the model.                                                    *)
(***************************************************************************)
MaxRules == 2
MaxStarts == 1
MaxFails == 1
MaxTicks == 1

(***************************************************************************)
(* Generic helpers.                                                        *)
(***************************************************************************)
Last(s) == s[Len(s)]

SeqToSet(s) == {s[i] : i \in 1..Len(s)}

Includes(s, x) == \E i \in 1..Len(s) : s[i] = x

SeqsUpTo(S, n) == UNION {[1..k -> S] : k \in 0..n}

Max(a, b) == IF a >= b THEN a ELSE b

(***************************************************************************)
(* Platform: String.prototype.toUpperCase over the country codes used.     *)
(***************************************************************************)
toUpperCase(s) == CASE s = "ru" -> "RU"
                    [] s = "us" -> "US"
                    [] OTHER -> s

(***************************************************************************)
(* Platform: new RegExp(pattern) and String.prototype.match.  A pattern is *)
(* its source text and a pathname is the sequence of its segments          *)
(* ("/casino/spins100" is <<"casino", "spins100">>); the table gives, for  *)
(* the request paths of the model, the match array (whole match, then the  *)
(* capture groups) or Null.                                                *)
(* RegExpThrows holds for a source text that is no regular expression.     *)
(***************************************************************************)
Null == <<>>

PatCasino == "^/casino/([^/?#]+)"
PatPromo == "^/promo"
PatCasinoAny == "^/casino/([^/?#]*)"
PatBad == "("

RegExpThrows(pattern) == pattern = PatBad

StringMatch(pathname, pattern) ==
  CASE pattern = PatCasino /\ pathname = <<"casino", "spins100">> ->
         <<"/casino/spins100", "spins100">>
    [] pattern = PatPromo /\ pathname = <<"promo", "x">> -> <<"/promo">>
    [] pattern = PatCasinoAny /\ pathname = <<"casino", "spins100">> ->
         <<"/casino/spins100", "spins100">>
    [] pattern = PatCasinoAny /\ pathname = <<"casino", "">> -> <<"/casino/", "">>
    [] OTHER -> Null

(***************************************************************************)
(* URLSearchParams.set: the first pair with the key takes the value and    *)
(* later pairs with the key are dropped; an unknown key is appended.       *)
(***************************************************************************)
RECURSIVE DropKey(_, _)
DropKey(q, key) ==
  IF q = <<>> THEN <<>>
  ELSE IF Head(q)[1] = key THEN DropKey(Tail(q), key)
       ELSE <<Head(q)>> \o DropKey(Tail(q), key)

RECURSIVE searchParamsSet(_, _, _)
searchParamsSet(q, key, value) ==
  IF q = <<>> THEN <<<<key, value>>>>
  ELSE IF Head(q)[1] = key THEN <<<<key, value>>>> \o DropKey(Tail(q), key)
       ELSE <<Head(q)>> \o searchParamsSet(Tail(q), key, value)

RECURSIVE SetAll(_, _)
SetAll(q, pairs) ==
  IF pairs = <<>> THEN q
  ELSE SetAll(searchParamsSet(q, Head(pairs)[1], Head(pairs)[2]), Tail(pairs))

(***************************************************************************)
(* Classification of the client (detectDevice, isBotAgent).  A user-agent  *)
(* string is modelled by the set of lower-case tokens it contains.         *)
(***************************************************************************)
detectDevice(uaRaw) ==
  IF uaRaw = {} THEN "desktop"
  ELSE IF \E key \in {"ipad", "tablet"} : key \in uaRaw THEN "tablet"
  ELSE IF "android" \in uaRaw /\ "mobile" \in uaRaw THEN "mobile"
  ELSE IF \E key \in {"iphone", "ipod", "windows phone", "iemobile", "blackberry", "opera mini"} :
            key \in uaRaw THEN "mobile"
  ELSE "desktop"

toLowerCase(s) == CASE s = "YandexBot" -> "yandexbot"
                    [] s = "YandexMobileBot" -> "yandexmobilebot"
                    [] s = "Googlebot" -> "googlebot"
                    [] s = "AdsBot-Google-Mobile" -> "adsbot-google-mobile"
                    [] OTHER -> s

\* isBotAgent that consults the signature lists whatever strictBots says.
isBotAgent_ListsAlways(uaRaw, flags, cfBot) ==
  IF uaRaw = {} /\ cfBot THEN TRUE
  ELSE LET knownBots == flags.yandexBots \o flags.googleBots
       IN IF \E i \in 1..Len(knownBots) : toLowerCase(knownBots[i]) \in uaRaw
          THEN TRUE
          ELSE cfBot

isBotAgent(uaRaw, flags, cfBot) ==
  IF uaRaw = {} /\ cfBot THEN TRUE
  ELSE LET knownBots == (IF flags.strictBots THEN flags.yandexBots ELSE <<>>)
                        \o (IF flags.strictBots THEN flags.googleBots ELSE <<>>)
       IN IF \E i \in 1..Len(knownBots) : toLowerCase(knownBots[i]) \in uaRaw
          THEN TRUE
          ELSE cfBot

(***************************************************************************)
(* Matching (matchRoute).  A MatchRule field that is not set carries       *)
(* "unset"; match.path is a string, an array of strings, or not set.       *)
(***************************************************************************)
ensureArray(value) ==
  CASE value.kind = "undefined" -> [defined |-> FALSE, items |-> <<>>]
    [] value.kind = "array" -> [defined |-> TRUE, items |-> value.val]
    [] OTHER -> [defined |-> TRUE, items |-> <<value.val[1]>>]

\* null, the result of matchRoute for a rule that does not match.  Only the
\* field matched of a context is ever compared.
NoContext == [matched |-> FALSE]

\* paths.some(...) whose catch block returns true: a pattern that does not
\* compile counts as a match.
RECURSIVE pathsSome_CatchMatches(_, _)
pathsSome_CatchMatches(paths, pathname) ==
  IF paths = <<>> THEN [ok |-> FALSE, pathMatch |-> Null]
  ELSE LET pattern == Head(paths)
           res == IF RegExpThrows(pattern) THEN Null ELSE StringMatch(pathname, pattern)
       IN IF RegExpThrows(pattern) \/ res # Null THEN [ok |-> TRUE, pathMatch |-> res]
          ELSE pathsSome_CatchMatches(Tail(paths), pathname)

\* paths.some(...): the first pattern that compiles and matches sets pathMatch.
RECURSIVE pathsSome(_, _)
pathsSome(paths, pathname) ==
  IF paths = <<>> THEN [ok |-> FALSE, pathMatch |-> Null]
  ELSE LET pattern == Head(paths)
           res == IF RegExpThrows(pattern) THEN Null ELSE StringMatch(pathname, pattern)
       IN IF res # Null THEN [ok |-> TRUE, pathMatch |-> res]
          ELSE pathsSome(Tail(paths), pathname)

\* matchRoute without the test of rule.enabled.
matchRoute_IgnoresEnabled(rule, pathname, country, device, isBot) ==
  LET match == rule.match
      paths == ensureArray(match.path)
      some == IF paths.defined /\ Len(paths.items) > 0
              THEN pathsSome(paths.items, pathname)
              ELSE [ok |-> TRUE, pathMatch |-> Null]
  IN IF ~some.ok THEN NoContext
     ELSE IF match.countries.defined /\ Len(match.countries.val) > 0
             /\ ~Includes(match.countries.val, country) THEN NoContext
     ELSE IF match.devices.defined /\ Len(match.devices.val) > 0
             /\ ~Includes(match.devices.val, "any")
             /\ ~Includes(match.devices.val, device) THEN NoContext
     ELSE IF match.bots = "true" /\ ~isBot THEN NoContext
     ELSE IF match.bots = "false" /\ isBot THEN NoContext
     ELSE [matched |-> TRUE, route |-> rule, pathMatch |-> some.pathMatch]

\* matchRoute without the line that excludes bots from a bots=false rule.
matchRoute_BotsTrueOnly(rule, pathname, country, device, isBot) ==
  IF rule.enabled = "false" THEN NoContext
  ELSE
    LET match == rule.match
        paths == ensureArray(match.path)
        some == IF paths.defined /\ Len(paths.items) > 0
                THEN pathsSome(paths.items, pathname)
                ELSE [ok |-> TRUE, pathMatch |-> Null]
    IN IF ~some.ok THEN NoContext
       ELSE IF match.countries.defined /\ Len(match.countries.val) > 0
               /\ ~Includes(match.countries.val, country) THEN NoContext
       ELSE IF match.devices.defined /\ Len(match.devices.val) > 0
               /\ ~Includes(match.devices.val, "any")
               /\ ~Includes(match.devices.val, device) THEN NoContext
       ELSE IF match.bots = "true" /\ ~isBot THEN NoContext
       ELSE [matched |-> TRUE, route |-> rule, pathMatch |-> some.pathMatch]

matchRoute(rule, pathname, country, device, isBot) ==
  IF rule.enabled = "false" THEN NoContext
  ELSE
    LET match == rule.match
        paths == ensureArray(match.path)
        some == IF paths.defined /\ Len(paths.items) > 0
                THEN pathsSome(paths.items, pathname)
                ELSE [ok |-> TRUE, pathMatch |-> Null]
    IN IF ~some.ok THEN NoContext
       ELSE IF match.countries.defined /\ Len(match.countries.val) > 0
               /\ ~Includes(match.countries.val, country) THEN NoContext
       ELSE IF match.devices.defined /\ Len(match.devices.val) > 0
               /\ ~Includes(match.devices.val, "any")
               /\ ~Includes(match.devices.val, device) THEN NoContext
       ELSE IF match.bots = "true" /\ ~isBot THEN NoContext
       ELSE IF match.bots = "false" /\ isBot THEN NoContext
       ELSE [matched |-> TRUE, route |-> rule, pathMatch |-> some.pathMatch]

(***************************************************************************)
(* Action execution (applyRedirect, applyResponse, executeRoute).          *)
(***************************************************************************)
NoHeaders == {}

OriginResponse == [kind |-> "origin", status |-> 0, location |-> [base |-> "", query |-> <<>>],
                   headers |-> NoHeaders, body |-> ""]

\* One entry of action.query applied to the target's search parameters.
applyQueryEntry(q, key, value, pathMatch) ==
  CASE value.kind = "fromPathGroup" ->
         LET segment == IF pathMatch # Null /\ value.index + 1 <= Len(pathMatch)
                        THEN pathMatch[value.index + 1] ELSE ""
         IN IF segment # "" THEN searchParamsSet(q, key, segment) ELSE q
    [] value.kind = "literal" -> searchParamsSet(q, key, value.value)
    [] OTHER -> searchParamsSet(q, key, value.value)

RECURSIVE applyQuery(_, _, _)
applyQuery(q, entries, pathMatch) ==
  IF entries = <<>> THEN q
  ELSE applyQuery(applyQueryEntry(q, Head(entries)[1], Head(entries)[2], pathMatch),
                  Tail(entries), pathMatch)

\* applyRedirect with extraQuery applied before the original query is copied.
applyRedirect_ExtraFirst(action, context, request, country, device) ==
  LET q0 == action.targetQuery
      q1 == SetAll(q0, action.extraQuery)
      q2 == IF action.preserveOriginalQuery THEN SetAll(q1, request.query) ELSE q1
      q3 == applyQuery(q2, action.query, context.pathMatch)
      q4 == IF action.appendCountry THEN searchParamsSet(q3, "country", country) ELSE q3
      q5 == IF action.appendDevice THEN searchParamsSet(q4, "device", device) ELSE q4
      status == IF action.status = 0 THEN 302 ELSE action.status
  IN [kind |-> "redirect", status |-> status,
      location |-> [base |-> action.target, query |-> q5],
      headers |-> NoHeaders, body |-> ""]

applyRedirect(action, context, request, country, device) ==
  LET q0 == action.targetQuery
      q1 == IF action.preserveOriginalQuery THEN SetAll(q0, request.query) ELSE q0
      q2 == SetAll(q1, action.extraQuery)
      q3 == applyQuery(q2, action.query, context.pathMatch)
      q4 == IF action.appendCountry THEN searchParamsSet(q3, "country", country) ELSE q3
      q5 == IF action.appendDevice THEN searchParamsSet(q4, "device", device) ELSE q4
      status == IF action.status = 0 THEN 302 ELSE action.status
  IN [kind |-> "redirect", status |-> status,
      location |-> [base |-> action.target, query |-> q5],
      headers |-> NoHeaders, body |-> ""]

applyResponse(action) ==
  LET status == IF action.status = 0 THEN 200 ELSE action.status
      headers == IF \E h \in action.headers : h[1] = "Content-Type"
                 THEN action.headers
                 ELSE action.headers \cup
                      {<<"Content-Type",
                         IF action.bodyHtml \notin {"unset", ""} THEN "text/html; charset=utf-8"
                         ELSE "text/plain; charset=utf-8">>}
      body == IF action.bodyHtml # "unset" THEN action.bodyHtml
              ELSE IF action.bodyText # "unset" THEN action.bodyText ELSE ""
  IN [kind |-> "response", status |-> status, location |-> [base |-> "", query |-> <<>>],
      headers |-> headers, body |-> body]

executeRoute(ctx, request, country, device) ==
  LET action == ctx.route.action IN
  CASE action.type = "absent" ->
         [kind |-> "response", status |-> 204, location |-> [base |-> "", query |-> <<>>],
          headers |-> NoHeaders, body |-> ""]
    [] action.type = "redirect" -> applyRedirect(action, ctx, request, country, device)
    [] action.type = "response" -> applyResponse(action)
    [] OTHER ->
         [kind |-> "response", status |-> 500, location |-> [base |-> "", query |-> <<>>],
          headers |-> NoHeaders, body |-> ""]

(***************************************************************************)
(* Runtime (handleRuntimeRequest): classification, then the rules of the   *)
(* bundle in array order; the first context that is not null is executed.  *)
(* idx is the position of the rule whose action was executed, 0 for none.  *)
(***************************************************************************)
RECURSIVE routesLoop(_, _, _, _, _, _, _)
routesLoop(routes, i, request, pathname, country, device, isBot) ==
  IF i > Len(routes) THEN [idx |-> 0, response |-> OriginResponse]
  ELSE LET ctx == matchRoute(routes[i], pathname, country, device, isBot)
       IN IF ctx.matched
          THEN [idx |-> i, response |-> executeRoute(ctx, request, country, device)]
          ELSE routesLoop(routes, i + 1, request, pathname, country, device, isBot)

handleRuntimeRequest(bundle, request) ==
  LET pathname == request.pathname
      ua == request.ua
      country == toUpperCase(request.cfCountry)
      device == detectDevice(ua)
      isBot == isBotAgent(ua, bundle.flags, request.cfBot)
  IN routesLoop(bundle.routes, 1, request, pathname, country, device, isBot)

(***************************************************************************)
(* Configuration values of the model.                                      *)
(***************************************************************************)
DEFAULT_FLAGS ==
  [cacheTtlMs |-> 60000, strictBots |-> TRUE,
   yandexBots |-> <<"YandexBot", "YandexMobileBot">>,
   googleBots |-> <<"Googlebot", "AdsBot-Google-Mobile">>,
   allowedAdminIps |-> <<>>, uiTitle |-> "mini-tds admin", uiReadonly |-> FALSE]

PathUnset == [kind |-> "undefined", val |-> <<>>]
PathString(p) == [kind |-> "string", val |-> <<p>>]
PathArray(ps) == [kind |-> "array", val |-> ps]
ListUnset == [defined |-> FALSE, val |-> <<>>]
ListOf(s) == [defined |-> TRUE, val |-> s]

MatchRule(path, countries, devices, bots) ==
  [path |-> path, countries |-> countries, devices |-> devices, bots |-> bots]

NoQueryValue == [kind |-> "raw", index |-> 0, value |-> ""]

RedirectAction(target, query, extraQuery, preserve, appendCountry, appendDevice) ==
  [type |-> "redirect", target |-> target, targetQuery |-> <<>>, status |-> 0,
   query |-> query, preserveOriginalQuery |-> preserve, extraQuery |-> extraQuery,
   appendCountry |-> appendCountry, appendDevice |-> appendDevice,
   headers |-> NoHeaders, bodyHtml |-> "unset", bodyText |-> "unset"]

ResponseAction(status, bodyHtml, bodyText) ==
  [type |-> "response", target |-> "", targetQuery |-> <<>>, status |-> status,
   query |-> <<>>, preserveOriginalQuery |-> FALSE, extraQuery |-> <<>>,
   appendCountry |-> FALSE, appendDevice |-> FALSE,
   headers |-> NoHeaders, bodyHtml |-> bodyHtml, bodyText |-> bodyText]

\* present: the keys the JSON object of the rule has.
RouteRule(id, enabled, match, action) ==
  [isObject |-> TRUE, present |-> {"id", "match", "action"}, id |-> id, enabled |-> enabled,
   match |-> match, action |-> action]

RedirectGo ==
  RedirectAction("https://partner.example/go",
                 <<<<"bonus", [kind |-> "fromPathGroup", index |-> 1, value |-> ""]>>>>,
                 <<>>, FALSE, FALSE, FALSE)

ResponseBlocked == ResponseAction(0, "unset", "blocked")

\* The rules the matcher is checked on: every combination of the criteria
\* being set or not, disabled rules that would match every request, and
\* rules for the remaining shapes of a criterion.
RuleUniverse ==
  {RouteRule("r", "unset", MatchRule(path, countries, ListUnset, bots), RedirectGo) :
     path \in {PathUnset, PathString(PatCasino)},
     countries \in {ListUnset, ListOf(<<"RU">>)},
     bots \in {"unset", "false", "true"}}
  \cup
  {RouteRule("r", "false", MatchRule(PathUnset, ListUnset, ListUnset, bots), RedirectGo) :
     bots \in {"unset", "false", "true"}}
  \cup
  {RouteRule("m", "true", MatchRule(PathUnset, ListUnset, ListOf(<<"mobile">>), "unset"),
             ResponseBlocked),
   RouteRule("a", "unset", MatchRule(PathUnset, ListOf(<<>>), ListOf(<<"any", "tablet">>), "unset"),
             ResponseBlocked),
   RouteRule("x", "unset", MatchRule(PathArray(<<PatBad, PatPromo>>), ListUnset, ListUnset, "unset"),
             ResponseBlocked),
   RouteRule("b", "unset", MatchRule(PathString(PatBad), ListUnset, ListUnset, "unset"),
             ResponseBlocked)}

Request(method, pathname, ua, cfCountry, cfBot, authorization, queryToken, cfConnectingIp, xForwardedFor, ifMatch, body) ==
  [method |-> method, pathname |-> pathname, query |-> <<>>, ua |-> ua, chMobile |-> "",
   cfCountry |-> cfCountry, cfBot |-> cfBot, authorization |-> authorization,
   queryToken |-> queryToken, cfConnectingIp |-> cfConnectingIp,
   xForwardedFor |-> xForwardedFor, ifMatch |-> ifMatch, body |-> body]

NoAuthorization == [scheme |-> "", value |-> ""]
Bearer(token) == [scheme |-> "Bearer", value |-> token]
NoIfMatch == <<>>
NoBody == [kind |-> "empty"]

RuntimeRequest(method, pathname, ua, cfCountry, cfBot) ==
  Request(method, pathname, ua, cfCountry, cfBot, NoAuthorization, "", "", "", NoIfMatch, NoBody)

RuntimeRequests ==
  {RuntimeRequest("GET", pathname, ua, cfCountry, cfBot) :
     pathname \in {<<"casino", "spins100">>, <<"promo", "x">>, <<"unmapped", "page">>},
     ua \in {{"iphone"}, {"windows"}, {"googlebot"}},
     cfCountry \in {"RU", ""},
     cfBot \in BOOLEAN}

(***************************************************************************)
(* Environment of the worker: the ADMIN_TOKEN secret, CONFIG_VERSION, the  *)
(* baked-in default routes (config/routes.json as docs/routes-guide.md     *)
(* prints it) and the values admin requests carry.                         *)
(***************************************************************************)
ADMIN_TOKEN == "secret"

CONFIG_VERSION == "1"

DEFAULT_ROUTES ==
  <<RouteRule("rule-ru-mobile-casino", "true",
              MatchRule(PathString(PatCasino), ListOf(<<"RU">>), ListOf(<<"mobile">>), "false"),
              RedirectAction("https://bxxd.ru/tds/go.cgi?6",
                             <<<<"bonus", [kind |-> "fromPathGroup", index |-> 1, value |-> ""]>>>>,
                             <<<<"src", "mobile-geo">>>>, FALSE, TRUE, TRUE))>>

RulePromo ==
  RouteRule("rule-promo", "unset", MatchRule(PathString(PatPromo), ListUnset, ListUnset, "unset"),
            ResponseBlocked)

RoutesPromo == <<RulePromo>> \o DEFAULT_ROUTES

FlagsLocked ==
  [DEFAULT_FLAGS EXCEPT !.cacheTtlMs = 1000, !.allowedAdminIps = <<"10.0.0.1">>]

Keys == {"routes", "flags", "metadata"}

(***************************************************************************)
(* Platform: JSON.stringify / JSON.parse (KV get with type "json"), the    *)
(* SHA-256 digest of hashText (taken to be injective) and String trim.     *)
(***************************************************************************)
JSONstringify(value) == [json |-> value]

JSONparse(text) == text.json

hashText(input) == <<"sha256", input>>

trim(s) == IF s = " 10.0.0.1" THEN "10.0.0.1" ELSE s

\* A KV entry: absent, or the text stored under the key.
Absent == [has |-> FALSE, text |-> [json |-> <<>>]]

Stored(text) == [has |-> TRUE, text |-> text]

EmptyStore == [k \in Keys |-> Absent]

(***************************************************************************)
(* computeEtag, and the bundle hydrateCache builds from a raw load.        *)
(***************************************************************************)
\* computeEtag hashing the whole metadata record instead of its version.
computeEtag_WithTimestamp(bundle) ==
  hashText(JSONstringify([routes |-> bundle.routes, flags |-> bundle.flags,
                          version |-> bundle.metadata.version,
                          updatedAt |-> bundle.metadata.updatedAt]))

computeEtag(bundle) ==
  hashText(JSONstringify([routes |-> bundle.routes, flags |-> bundle.flags,
                          version |-> bundle.metadata.version]))

MIN_TTL == 5000

NullBundle ==
  [isNull |-> TRUE, routes |-> <<>>, flags |-> DEFAULT_FLAGS,
   metadata |-> [version |-> "", updatedAt |-> 0, updatedBy |-> ""],
   etag |-> <<>>, loadedAt |-> 0, expiresAt |-> 0]

\* hydrateCache computing the digest over the bundle it is about to hold,
\* loadedAt included, instead of over the raw load.
makeBundle_EtagOfHeld(raw, t) ==
  LET etag == hashText(JSONstringify([routes |-> raw.routes, flags |-> raw.flags,
                                      version |-> raw.metadata.version, loadedAt |-> t]))
      ttl == Max(IF "cacheTtlMs" \notin DOMAIN raw.flags \/ raw.flags.cacheTtlMs = 0
                 THEN 60000 ELSE raw.flags.cacheTtlMs, MIN_TTL)
  IN [isNull |-> FALSE, routes |-> raw.routes, flags |-> raw.flags, metadata |-> raw.metadata,
      etag |-> etag, loadedAt |-> t, expiresAt |-> t + ttl]

\* hydrateCache without Math.max(..., MIN_TTL).
makeBundle_NoFloor(raw, t) ==
  LET etag == computeEtag(raw)
      ttl == IF "cacheTtlMs" \notin DOMAIN raw.flags \/ raw.flags.cacheTtlMs = 0
             THEN 60000 ELSE raw.flags.cacheTtlMs
  IN [isNull |-> FALSE, routes |-> raw.routes, flags |-> raw.flags, metadata |-> raw.metadata,
      etag |-> etag, loadedAt |-> t, expiresAt |-> t + ttl]

\* hydrateCache, lines 605-614: the bundle installed at time t from raw.
makeBundle(raw, t) ==
  LET etag == computeEtag(raw)
      ttl == Max(IF "cacheTtlMs" \notin DOMAIN raw.flags \/ raw.flags.cacheTtlMs = 0
                 THEN 60000 ELSE raw.flags.cacheTtlMs, MIN_TTL)
  IN [isNull |-> FALSE, routes |-> raw.routes, flags |-> raw.flags, metadata |-> raw.metadata,
      etag |-> etag, loadedAt |-> t, expiresAt |-> t + ttl]

\* loadRawConfig, lines 576-584: the values of the three reads, with the
\* defaults for the absent ones (the metadata default is stamped at time t).
rawConfig(reads, t) ==
  [routes |-> IF reads["routes"].has THEN JSONparse(reads["routes"].text) ELSE <<>>,
   flags |-> IF reads["flags"].has THEN JSONparse(reads["flags"].text) ELSE DEFAULT_FLAGS,
   metadata |-> IF reads["metadata"].has THEN JSONparse(reads["metadata"].text)
                ELSE [version |-> CONFIG_VERSION, updatedAt |-> t, updatedBy |-> "unknown"]]

(***************************************************************************)
(* Authorization (readAdminToken, isIpAllowed, authorize, buildActor).     *)
(* An absent header or parameter is the empty string.                      *)
(***************************************************************************)
\* readAdminToken reading the token query parameter only.
readAdminToken_QueryOnly(request) == request.queryToken

readAdminToken(request) ==
  IF request.authorization.scheme = "Bearer"
  THEN trim(request.authorization.value)
  ELSE request.queryToken

isIpAllowed(ip, flags) ==
  IF Len(flags.allowedAdminIps) = 0 THEN TRUE
  ELSE IF ip = "" THEN FALSE
  ELSE Includes(flags.allowedAdminIps, trim(ip))

\* authorize without the test of the allow list.
authorize_TokenOnly(request, flags) ==
  LET token == readAdminToken(request)
  IN IF token = "" \/ token # ADMIN_TOKEN THEN 401 ELSE 0

\* 0 when authorize returns, else the status of the error it throws.
authorize(request, flags) ==
  LET token == readAdminToken(request)
      ip == IF request.cfConnectingIp # "" THEN request.cfConnectingIp
            ELSE request.xForwardedFor
  IN IF token = "" \/ token # ADMIN_TOKEN THEN 401
     ELSE IF ~isIpAllowed(ip, flags) THEN 403
     ELSE 0

buildActor(request) ==
  LET ip == IF request.cfConnectingIp # "" THEN request.cfConnectingIp
            ELSE IF request.xForwardedFor # "" THEN request.xForwardedFor
            ELSE "unknown"
  IN <<"admin@ip-", ip>>

(***************************************************************************)
(* Validation (validateRoutesPayload, validateFlagsPayload).  A payload is *)
(* what JSON.parse gave: routes is an array of rules or something else, a  *)
(* rule has the keys in its field present.                                 *)
(***************************************************************************)
\* "" when the payload passes, else the message of the error thrown.
RECURSIVE validateRules(_, _)
validateRules(items, idx) ==
  IF idx > Len(items) THEN ""
  ELSE LET rule == items[idx] IN
       IF ~rule.isObject THEN "must be object"
       ELSE IF "id" \notin rule.present \/ rule.id = "" THEN "id is required"
       ELSE IF "match" \notin rule.present THEN "match is required"
       ELSE IF "action" \notin rule.present THEN "action is required"
       ELSE IF rule.action.type = "redirect" /\ rule.action.target = ""
            THEN "action.target is required"
       ELSE validateRules(items, idx + 1)

\* validateRoutesPayload without the loop over the rules.
validateRoutesPayload_ArrayOnly(routes) ==
  IF ~routes.isArray THEN "routes must be an array" ELSE ""

validateRoutesPayload(routes) ==
  IF ~routes.isArray THEN "routes must be an array"
  ELSE validateRules(routes.items, 1)

validateFlagsPayload(flags) ==
  IF ~flags.isObject THEN "flags must be an object" ELSE ""

(***************************************************************************)
(* State.                                                                  *)
(***************************************************************************)
VARIABLES
  rtRoutes,      \* the routes of the bundle a runtime request is matched against
  rtRequest,     \* the runtime request
  rtResult,      \* what handleRuntimeRequest returned for it, or its absence
  kv,            \* the CONFIG namespace: routes, flags and metadata records
  audit,         \* the AUDIT namespace: a set of [key, text]
  cachedConfig,  \* the process-wide bundle, or NullBundle
  initPromise,   \* TRUE while the single-flight bootstrap promise is set
  boot,          \* the bootstrap attempt behind initPromise
  detached,      \* default puts still in flight after Promise.all rejected
  now,           \* Date.now()
  uuid,          \* the number of crypto.randomUUID() values drawn
  fails,         \* the number of store operations that have thrown
  starts,        \* the number of requests received
  req,           \* per request context: the request
  pc,            \* per request context: where its handler is suspended
  loc,           \* per request context: the handler's local variables
  resp,          \* per request context: the response, once pc is "done"
  trace          \* per request context: the effects its handling has had

rtVars == <<rtRoutes, rtRequest, rtResult>>

sharedVars == <<kv, audit, cachedConfig, initPromise, boot, detached, now, uuid, fails, starts>>

reqVars == <<req, pc, loc, resp, trace>>

vars == <<rtVars, sharedVars, reqVars>>

Slots == {1, 2}

NoResult == [idx |-> 0 - 1, response |-> OriginResponse]

NoRequest == RuntimeRequest("", <<>>, {}, "", FALSE)

NoResponse == [kind |-> "none", status |-> 0, location |-> [base |-> "", query |-> <<>>],
               headers |-> NoHeaders, body |-> <<>>]

NoMetadata == [version |-> "", updatedAt |-> 0, updatedBy |-> ""]

NoAudit == [key |-> <<>>, text |-> [json |-> <<>>]]

NoLoc ==
  [serial |-> 0, result |-> NullBundle, ret |-> "", pendingReads |-> {}, reads |-> EmptyStore,
   current |-> NullBundle, metadata |-> NoMetadata, newRoutes |-> <<>>,
   newFlags |-> DEFAULT_FLAGS, action |-> "", pendingAudit |-> NoAudit]

NoBoot == [pc |-> "idle", pending |-> {}, meta |-> NoMetadata, owner |-> 0,
           pendingAudit |-> NoAudit]

DefaultStore(t) ==
  [k \in Keys |->
     CASE k = "routes" -> Stored(JSONstringify(DEFAULT_ROUTES))
       [] k = "flags" -> Stored(JSONstringify(DEFAULT_FLAGS))
       [] OTHER -> Stored(JSONstringify([version |-> CONFIG_VERSION, updatedAt |-> t,
                                         updatedBy |-> "bootstrap"]))]

\* The matcher's variables while the worker process runs, and the worker's
\* while the matcher is checked on its own.
RtIdle == rtRoutes = <<>> /\ rtRequest = NoRequest /\ rtResult = NoResult

ProcInit ==
  /\ audit = {}
  /\ cachedConfig = NullBundle
  /\ initPromise = FALSE
  /\ boot = NoBoot
  /\ detached = {}
  /\ now = 0
  /\ uuid = 0
  /\ fails = 0
  /\ starts = 0
  /\ req = [r \in Slots |-> NoRequest]
  /\ pc = [r \in Slots |-> "idle"]
  /\ loc = [r \in Slots |-> NoLoc]
  /\ resp = [r \in Slots |-> NoResponse]
  /\ trace = [r \in Slots |-> <<>>]

(***************************************************************************)
(* The matcher on its own: every rule list up to MaxRules rules and every  *)
(* request, handled once by handleRuntimeRequest.                          *)
(***************************************************************************)
MatchInit ==
  /\ rtRoutes \in SeqsUpTo(RuleUniverse, MaxRules)
  /\ rtRequest \in RuntimeRequests
  /\ rtResult = NoResult
  /\ kv = EmptyStore
  /\ ProcInit

RuntimeHandle ==
  /\ rtResult = NoResult
  /\ rtResult' = handleRuntimeRequest([routes |-> rtRoutes, flags |-> DEFAULT_FLAGS], rtRequest)
  /\ UNCHANGED <<rtRoutes, rtRequest, sharedVars, reqVars>>

MatchNext == RuntimeHandle

SpecMatch == MatchInit /\ [][MatchNext]_vars

(***************************************************************************)
(* The action executor on redirects: one rule whose path pattern matches   *)
(* with a capture, with an empty capture or without a group, and whose     *)
(* redirect draws on the original query, extraQuery, the three kinds of    *)
(* query projection and appendCountry/appendDevice, the same key being set *)
(* by several of them; requests with and without a query string.           *)
(***************************************************************************)
FromPathGroup(n) == [kind |-> "fromPathGroup", index |-> n, value |-> ""]
Literal(v) == [kind |-> "literal", index |-> 0, value |-> v]
Raw(v) == [kind |-> "raw", index |-> 0, value |-> v]

RedirectQueries ==
  {<<>>,
   <<<<"bonus", FromPathGroup(1)>>>>,
   <<<<"src", Literal("lit")>>, <<"bonus", FromPathGroup(1)>>>>,
   <<<<"country", Raw("7")>>, <<"src", FromPathGroup(0)>>>>}

RedirectActions ==
  {[RedirectAction("https://partner.example/go", query, extraQuery, preserve, append, append)
      EXCEPT !.targetQuery = targetQuery] :
     query \in RedirectQueries,
     extraQuery \in {<<>>, <<<<"src", "mobile-geo">>, <<"bonus", "extra">>>>},
     preserve \in BOOLEAN,
     append \in BOOLEAN,
     targetQuery \in {<<>>, <<<<"src", "target">>>>}}

RedirectRules ==
  {RouteRule("r", "unset", MatchRule(PathString(pattern), ListUnset, ListUnset, "unset"), action) :
     pattern \in {PatCasinoAny, PatPromo}, action \in RedirectActions}

RedirectRequests ==
  {[RuntimeRequest("GET", pathname, {"iphone"}, "RU", FALSE) EXCEPT !.query = query] :
     pathname \in {<<"casino", "spins100">>, <<"casino", "">>, <<"promo", "x">>},
     query \in {<<>>, <<<<"src", "organic">>, <<"bonus", "q">>>>,
                <<<<"country", "xx">>, <<"src", "a">>, <<"src", "b">>>>}}

RedirectInit ==
  /\ rtRoutes \in {<<rule>> : rule \in RedirectRules}
  /\ rtRequest \in RedirectRequests
  /\ rtResult = NoResult
  /\ kv = EmptyStore
  /\ ProcInit

SpecRedirect == RedirectInit /\ [][MatchNext]_vars

(***************************************************************************)
(* The matcher on the countries criterion: rules whose list is not set,    *)
(* empty, in upper or lower case, or holds an empty string, and requests   *)
(* whose cf.country is absent or in either case.                           *)
(***************************************************************************)
CountryRules ==
  {RouteRule("c", "unset", MatchRule(path, countries, ListUnset, "unset"), RedirectGo) :
     path \in {PathUnset, PathString(PatCasino)},
     countries \in {ListUnset, ListOf(<<>>), ListOf(<<"RU">>), ListOf(<<"ru">>), ListOf(<<"">>),
                    ListOf(<<"US", "">>), ListOf(<<"US", "RU">>)}}

CountryRequests ==
  {RuntimeRequest("GET", pathname, {"iphone"}, cfCountry, FALSE) :
     pathname \in {<<"casino", "spins100">>, <<"unmapped", "page">>},
     cfCountry \in {"RU", "ru", "US", ""}}

CountryInit ==
  /\ rtRoutes \in SeqsUpTo(CountryRules, MaxRules)
  /\ rtRequest \in CountryRequests
  /\ rtResult = NoResult
  /\ kv = EmptyStore
  /\ ProcInit

SpecCountry == CountryInit /\ [][MatchNext]_vars

(***************************************************************************)
(* The classifier: handleRuntimeRequest on a cache hit, the held bundle    *)
(* carrying flags with strictBots on or off and default or custom          *)
(* signature lists, for requests whose user-agent looks like a desktop, a  *)
(* phone, a tablet or a crawler, with and without the Sec-CH-UA-Mobile     *)
(* header and the platform's bot signal.  A rule without criteria appends  *)
(* the device to its redirect, a rule with bots set shows isBot.           *)
(***************************************************************************)
RedirectDevice == RedirectAction("https://partner.example/go", <<>>, <<>>, FALSE, FALSE, TRUE)

ClientRules ==
  {RouteRule("d", "unset", MatchRule(PathUnset, ListUnset, ListUnset, bots), RedirectDevice) :
     bots \in {"unset", "true", "false"}}

ClientAgents ==
  {{}, {"windows"}, {"iphone"}, {"android", "mobile"}, {"ipad", "mobile"},
   {"googlebot", "windows"}, {"custombot", "iphone"}}

ClientRequests ==
  {[RuntimeRequest("GET", <<"unmapped", "page">>, ua, "RU", cfBot) EXCEPT !.chMobile = chMobile] :
     ua \in ClientAgents, chMobile \in {"", "?1", "?0"}, cfBot \in BOOLEAN}

ClientFlags ==
  {[DEFAULT_FLAGS EXCEPT !.strictBots = strictBots, !.yandexBots = yandexBots] :
     strictBots \in BOOLEAN, yandexBots \in {DEFAULT_FLAGS.yandexBots, <<"custombot">>}}

ClientInit ==
  /\ rtRoutes \in SeqsUpTo(ClientRules, MaxRules)
  /\ rtRequest \in ClientRequests
  /\ rtResult = NoResult
  /\ kv = EmptyStore
  /\ audit = {}
  /\ \E flags \in ClientFlags :
       cachedConfig = makeBundle([routes |-> rtRoutes, flags |-> flags,
                                  metadata |-> [version |-> CONFIG_VERSION, updatedAt |-> 0,
                                                updatedBy |-> "bootstrap"]], 0)
  /\ initPromise = FALSE
  /\ boot = NoBoot
  /\ detached = {}
  /\ now = 0
  /\ uuid = 0
  /\ fails = 0
  /\ starts = 0
  /\ req = [r \in Slots |-> NoRequest]
  /\ pc = [r \in Slots |-> "idle"]
  /\ loc = [r \in Slots |-> NoLoc]
  /\ resp = [r \in Slots |-> NoResponse]
  /\ trace = [r \in Slots |-> <<>>]

\* handleRuntimeRequest whose hydrateCache returns the held bundle.
ClientHandle ==
  /\ rtResult = NoResult
  /\ ~cachedConfig.isNull /\ cachedConfig.expiresAt > now
  /\ rtResult' = handleRuntimeRequest(cachedConfig, rtRequest)
  /\ UNCHANGED <<rtRoutes, rtRequest, sharedVars, reqVars>>

ClientNext == ClientHandle

SpecClient == ClientInit /\ [][ClientNext]_vars

(***************************************************************************)
(* The worker process.  A step is the code that runs between two awaits:   *)
(* the completion of the awaited store operation, then the handler's code  *)
(* up to its next await.                                                   *)
(***************************************************************************)
Set(f, r, v) == [f EXCEPT ![r] = v]

\* A store operation may throw while the budget of failures lasts.
MayFail == fails < MaxFails

\* auditKey without the random suffix.
auditKey_NoSuffix(t, id) == <<"AUDIT", t, 0>>

\* auditKey: AUDIT/<timestamp>-<random uuid>; crypto.randomUUID() never
\* returns a value it returned before.
auditKey(t, id) == <<"AUDIT", t, id>>

\* A put that stores nothing.
kvPut_Dropped(ns, key, text) == ns

\* KVNamespace.put: the text under the key, replacing what the key held.
kvPut(ns, key, text) == {e \in ns : e.key # key} \cup {[key |-> key, text |-> text]}

AuditEntry(ts, actor, action, prevHash, newHash, error, serial) ==
  [ts |-> ts, actor |-> actor, action |-> action, prevHash |-> prevHash,
   newHash |-> newHash, error |-> error, serial |-> serial]

\* writeAudit up to its await: the key and the text of the put it issues.
writeAudit(entry) == [key |-> auditKey(now, uuid + 1), text |-> JSONstringify(entry)]

ExceptionResponse(message) ==
  [kind |-> "exception", status |-> 500, location |-> [base |-> "", query |-> <<>>],
   headers |-> NoHeaders, body |-> <<"error", message>>]

JsonResponse(status, body) ==
  [kind |-> "json", status |-> status, location |-> [base |-> "", query |-> <<>>],
   headers |-> {<<"Content-Type", "application/json">>}, body |-> body]

\* The test of hydrateCache without the comparison with Date.now().
CacheHit_IgnoresExpiry == ~cachedConfig.isNull

CacheHit == ~cachedConfig.isNull /\ cachedConfig.expiresAt > now

\* invalidateCache that leaves the bundle in place.
invalidateCache_Keeps == cachedConfig

\* invalidateCache, lines 618-620: the value cachedConfig takes.
invalidateCache == NullBundle

\* hydrateCache up to its first await, called by context r with continuation
\* ret: a hit returns the held bundle, a miss issues the three reads.
hydratePc(force, ret) == IF ~force /\ CacheHit THEN ret ELSE "load"

hydrateLoc(l, force, ret) ==
  IF ~force /\ CacheHit THEN [l EXCEPT !.result = cachedConfig]
  ELSE [l EXCEPT !.ret = ret, !.pendingReads = Keys, !.reads = EmptyStore]

(***************************************************************************)
(* fetch, line 1295, and ensureConfigInitialized.                          *)
(***************************************************************************)
\* A request arrives: fetch calls ensureConfigInitialized, which returns the
\* pending promise or starts an attempt (the metadata read is issued).
\* ensureConfigInitialized without the test of initPromise: every call starts
\* an attempt.
Receive_AlwaysStarts(r, request, limit) ==
  /\ pc[r] = "idle"
  /\ starts < limit
  /\ starts' = starts + 1
  /\ req' = Set(req, r, request)
  /\ pc' = Set(pc, r, "await_init")
  /\ initPromise' = TRUE
  /\ boot' = [NoBoot EXCEPT !.pc = "get", !.owner = r]
  /\ loc' = Set(loc, r, [NoLoc EXCEPT !.serial = starts + 1])
  /\ UNCHANGED <<rtVars, kv, audit, cachedConfig, detached, now, uuid, fails, resp, trace>>

Receive(r, request, limit) ==
  /\ pc[r] = "idle"
  /\ starts < limit
  /\ starts' = starts + 1
  /\ req' = Set(req, r, request)
  /\ pc' = Set(pc, r, "await_init")
  /\ IF initPromise
     THEN UNCHANGED <<initPromise, boot>>
     ELSE /\ initPromise' = TRUE
          /\ boot' = [NoBoot EXCEPT !.pc = "get", !.owner = r]
  /\ loc' = Set(loc, r, [NoLoc EXCEPT !.serial = starts + 1])
  /\ UNCHANGED <<rtVars, kv, audit, cachedConfig, detached, now, uuid, fails, resp, trace>>

Start(r, request) == Receive(r, request, MaxStarts)

\* The attempt settles: finally clears initPromise, the awaiting contexts resume.
Resumed(to) == [r \in Slots |-> IF pc[r] = "await_init" THEN to ELSE pc[r]]

BootstrapErrorEntry ==
  AuditEntry(now, "bootstrap", "config.bootstrap.error", <<>>, <<>>, "store error", 0)

\* The attempt without the test of the metadata it read: the defaults are
\* written whatever the store holds.
BootGetMetadata_NoGuard ==
  /\ boot.pc = "get"
  /\ \/ /\ boot' = [boot EXCEPT !.pc = "puts", !.pending = Keys,
                                !.meta = [version |-> CONFIG_VERSION, updatedAt |-> now,
                                          updatedBy |-> "bootstrap"]]
        /\ UNCHANGED <<initPromise, pc, uuid, fails>>
     \/ /\ MayFail
        /\ fails' = fails + 1
        /\ uuid' = uuid + 1
        /\ boot' = [boot EXCEPT !.pc = "err_audit", !.pendingAudit = writeAudit(BootstrapErrorEntry)]
        /\ UNCHANGED <<initPromise, pc>>
  /\ UNCHANGED <<rtVars, kv, audit, cachedConfig, detached, now, starts, req, loc, resp, trace>>

\* Lines 627-641: the metadata read completes.
BootGetMetadata ==
  /\ boot.pc = "get"
  /\ \/ /\ kv["metadata"].has
        /\ boot' = NoBoot
        /\ initPromise' = FALSE
        /\ pc' = Resumed("init_ok")
        /\ UNCHANGED <<uuid, fails>>
     \/ /\ ~kv["metadata"].has
        /\ boot' = [boot EXCEPT !.pc = "puts", !.pending = Keys,
                                !.meta = [version |-> CONFIG_VERSION, updatedAt |-> now,
                                          updatedBy |-> "bootstrap"]]
        /\ UNCHANGED <<initPromise, pc, uuid, fails>>
     \/ /\ MayFail
        /\ fails' = fails + 1
        /\ uuid' = uuid + 1
        /\ boot' = [boot EXCEPT !.pc = "err_audit", !.pendingAudit = writeAudit(BootstrapErrorEntry)]
        /\ UNCHANGED <<initPromise, pc>>
  /\ UNCHANGED <<rtVars, kv, audit, cachedConfig, detached, now, starts, req, loc, resp, trace>>

BootText(k) ==
  CASE k = "routes" -> JSONstringify(DEFAULT_ROUTES)
    [] k = "flags" -> JSONstringify(DEFAULT_FLAGS)
    [] OTHER -> JSONstringify(boot.meta)

BootstrapEntry ==
  AuditEntry(boot.meta.updatedAt, "bootstrap", "config.bootstrap", <<>>,
             computeEtag([routes |-> DEFAULT_ROUTES, flags |-> DEFAULT_FLAGS,
                          metadata |-> boot.meta]), "", 0)

\* The audit entry issued as soon as one put has completed, the other puts
\* not awaited.
BootPut_AuditEarly(k) ==
  /\ boot.pc = "puts"
  /\ k \in boot.pending
  /\ kv' = Set(kv, k, Stored(BootText(k)))
  /\ trace' = Set(trace, boot.owner, Append(trace[boot.owner], "boot.put." \o k))
  /\ boot' = [boot EXCEPT !.pc = "audit", !.pending = {},
                          !.pendingAudit = writeAudit(BootstrapEntry)]
  /\ uuid' = uuid + 1
  /\ UNCHANGED <<rtVars, audit, cachedConfig, initPromise, detached, now, fails, starts, req, pc,
                 loc, resp>>

\* Lines 643-655: one of the three default puts completes; after the last one
\* the bootstrap audit entry is issued.  A put that throws rejects Promise.all:
\* the catch handler issues the error entry and the other puts stay in flight.
BootPut(k) ==
  /\ boot.pc = "puts"
  /\ k \in boot.pending
  /\ \/ /\ kv' = Set(kv, k, Stored(BootText(k)))
        /\ trace' = Set(trace, boot.owner, Append(trace[boot.owner], "boot.put." \o k))
        /\ IF boot.pending = {k}
           THEN /\ boot' = [boot EXCEPT !.pc = "audit", !.pending = {},
                                        !.pendingAudit = writeAudit(BootstrapEntry)]
                /\ uuid' = uuid + 1
           ELSE /\ boot' = [boot EXCEPT !.pending = boot.pending \ {k}]
                /\ UNCHANGED uuid
        /\ UNCHANGED <<fails, detached>>
     \/ /\ MayFail
        /\ fails' = fails + 1
        /\ uuid' = uuid + 1
        /\ boot' = [boot EXCEPT !.pc = "err_audit", !.pending = {},
                                !.pendingAudit = writeAudit(BootstrapErrorEntry)]
        /\ detached' = detached \cup {[key |-> j, text |-> BootText(j)] : j \in boot.pending \ {k}}
        /\ UNCHANGED <<kv, trace>>
  /\ UNCHANGED <<rtVars, audit, cachedConfig, initPromise, now, starts, req, pc, loc, resp>>

\* A default put left in flight by a rejected Promise.all completes.
DetachedPut(d) ==
  /\ d \in detached
  /\ detached' = detached \ {d}
  /\ \/ kv' = Set(kv, d.key, Stored(d.text)) /\ UNCHANGED fails
     \/ MayFail /\ fails' = fails + 1 /\ UNCHANGED kv
  /\ UNCHANGED <<rtVars, audit, cachedConfig, initPromise, boot, now, uuid, starts, reqVars>>

\* Lines 649-657: the bootstrap audit put completes (writeAudit swallows a put
\* that throws), the cache is invalidated and the promise resolves.
BootAudit ==
  /\ boot.pc = "audit"
  /\ \/ /\ audit' = kvPut(audit, boot.pendingAudit.key, boot.pendingAudit.text)
        /\ trace' = Set(trace, boot.owner, Append(trace[boot.owner], "boot.audit"))
        /\ UNCHANGED fails
     \/ /\ MayFail
        /\ fails' = fails + 1
        /\ UNCHANGED <<audit, trace>>
  /\ cachedConfig' = invalidateCache
  /\ boot' = NoBoot
  /\ initPromise' = FALSE
  /\ pc' = Resumed("init_ok")
  /\ UNCHANGED <<rtVars, kv, detached, now, uuid, starts, req, loc, resp>>

\* The promise chain without its finally: a failed attempt stays memoised.
BootErrorAudit_KeepsMemo ==
  /\ boot.pc = "err_audit"
  /\ \/ /\ audit' = kvPut(audit, boot.pendingAudit.key, boot.pendingAudit.text)
        /\ trace' = Set(trace, boot.owner, Append(trace[boot.owner], "boot.audit.error"))
        /\ UNCHANGED fails
     \/ /\ MayFail
        /\ fails' = fails + 1
        /\ UNCHANGED <<audit, trace>>
  /\ boot' = NoBoot
  /\ UNCHANGED initPromise
  /\ pc' = Resumed("done")
  /\ resp' = [r \in Slots |-> IF pc[r] = "await_init" THEN ExceptionResponse("bootstrap")
                              ELSE resp[r]]
  /\ UNCHANGED <<rtVars, kv, cachedConfig, detached, now, uuid, starts, req, loc>>

\* The catch handler without its throw: the callers resume as after a success.
BootErrorAudit_NoRethrow ==
  /\ boot.pc = "err_audit"
  /\ \/ /\ audit' = kvPut(audit, boot.pendingAudit.key, boot.pendingAudit.text)
        /\ trace' = Set(trace, boot.owner, Append(trace[boot.owner], "boot.audit.error"))
        /\ UNCHANGED fails
     \/ /\ MayFail
        /\ fails' = fails + 1
        /\ UNCHANGED <<audit, trace>>
  /\ boot' = NoBoot
  /\ initPromise' = FALSE
  /\ pc' = Resumed("init_ok")
  /\ UNCHANGED <<rtVars, kv, cachedConfig, detached, now, uuid, starts, req, loc, resp>>

\* Lines 658-669: the error entry's put completes and the error is re-thrown
\* to every awaiting context; fetch does not catch it.
BootErrorAudit ==
  /\ boot.pc = "err_audit"
  /\ \/ /\ audit' = kvPut(audit, boot.pendingAudit.key, boot.pendingAudit.text)
        /\ trace' = Set(trace, boot.owner, Append(trace[boot.owner], "boot.audit.error"))
        /\ UNCHANGED fails
     \/ /\ MayFail
        /\ fails' = fails + 1
        /\ UNCHANGED <<audit, trace>>
  /\ boot' = NoBoot
  /\ initPromise' = FALSE
  /\ pc' = Resumed("done")
  /\ resp' = [r \in Slots |-> IF pc[r] = "await_init" THEN ExceptionResponse("bootstrap")
                              ELSE resp[r]]
  /\ UNCHANGED <<rtVars, kv, cachedConfig, detached, now, uuid, starts, req, loc>>

(***************************************************************************)
(* hydrateCache and loadRawConfig.                                         *)
(***************************************************************************)
Thrown(r, message, label) ==
  /\ pc' = Set(pc, r, "done")
  /\ resp' = Set(resp, r, ExceptionResponse(message))
  /\ trace' = Set(trace, r, Append(trace[r], label))

\* fetch line 1299, after the bootstrap promise resolved.
AfterInit(r) ==
  /\ pc[r] = "init_ok"
  /\ pc' = Set(pc, r, hydratePc(FALSE, "fetch"))
  /\ loc' = Set(loc, r, hydrateLoc(loc[r], FALSE, "fetch"))
  /\ UNCHANGED <<rtVars, sharedVars, req, resp, trace>>

\* One of the three parallel reads of loadRawConfig completes; a read that
\* throws rejects Promise.all and the error leaves fetch uncaught.
LoadRead(r, k) ==
  /\ pc[r] = "load"
  /\ k \in loc[r].pendingReads
  /\ \/ /\ LET reads == [loc[r].reads EXCEPT ![k] = kv[k]]
               raw == rawConfig(reads, now)
           IN IF loc[r].pendingReads = {k}
              THEN /\ loc' = Set(loc, r, [loc[r] EXCEPT !.pendingReads = {}, !.reads = EmptyStore,
                                            !.result = [NullBundle EXCEPT !.routes = raw.routes,
                                                                          !.flags = raw.flags,
                                                                          !.metadata = raw.metadata]])
                   /\ pc' = Set(pc, r, "install")
              ELSE /\ loc' = Set(loc, r, [loc[r] EXCEPT !.pendingReads = loc[r].pendingReads \ {k},
                                                         !.reads = reads])
                   /\ UNCHANGED pc
        /\ UNCHANGED <<fails, resp, trace>>
     \/ /\ MayFail
        /\ fails' = fails + 1
        /\ Thrown(r, "get", "fail.get")
        /\ loc' = Set(loc, r, [loc[r] EXCEPT !.pendingReads = {}, !.reads = EmptyStore])
  /\ UNCHANGED <<rtVars, kv, audit, cachedConfig, initPromise, boot, detached, now, uuid, starts, req>>

\* hydrateCache lines 605-615: the digest is in, the bundle replaces the held one.
Install(r) ==
  /\ pc[r] = "install"
  /\ LET bundle == makeBundle(loc[r].result, now)
     IN /\ cachedConfig' = bundle
        /\ loc' = Set(loc, r, [loc[r] EXCEPT !.result = bundle])
  /\ pc' = Set(pc, r, loc[r].ret)
  /\ trace' = Set(trace, r, Append(trace[r], "load." \o loc[r].ret))
  /\ UNCHANGED <<rtVars, kv, audit, initPromise, boot, detached, now, uuid, fails, starts, req, resp>>

(***************************************************************************)
(* fetch, lines 1297-1367: authorization and dispatch.                     *)
(***************************************************************************)
IsAdminPath(p) == p = <<"admin">>

IsApiPath(p) == Len(p) >= 2 /\ p[1] = "api"

IsRoutesIdPath(p) == Len(p) >= 3 /\ p[1] = "api" /\ p[2] = "routes"

\* Lines 1329-1359: the handler a pathname and a method select.
route(p, method) ==
  CASE p = <<"api", "routes">> /\ method = "GET" -> "routes.get"
    [] p = <<"api", "routes">> /\ method = "PUT" -> "routes.put"
    [] IsRoutesIdPath(p) /\ method = "PATCH" -> "routes.patch"
    [] IsRoutesIdPath(p) /\ method = "DELETE" -> "routes.delete"
    [] p = <<"api", "routes", "validate">> /\ method = "POST" -> "routes.validate"
    [] p = <<"api", "flags">> /\ method = "GET" -> "flags.get"
    [] p = <<"api", "flags">> /\ method = "PUT" -> "flags.put"
    [] p = <<"api", "cache", "invalidate">> /\ method = "POST" -> "cache.invalidate"
    [] p = <<"api", "audit">> /\ method = "GET" -> "audit"
    [] p = <<"api", "export">> /\ method = "GET" -> "export"
    [] p = <<"api", "import">> /\ method = "POST" -> "import"
    [] OTHER -> "not_found"

\* The handlers that start by reading the request body.
BodyPc(op) ==
  CASE op = "routes.put" -> "put_body"
    [] op = "routes.patch" -> "patch_body"
    [] op = "routes.validate" -> "validate_body"
    [] op = "flags.put" -> "flags_body"
    [] OTHER -> "import_body"

\* The handlers that start with hydrateCache(env, true), and its continuation.
ReloadRet(op) == IF op = "routes.delete" THEN "delete" ELSE "read"

Fetch(r) ==
  /\ pc[r] = "fetch"
  /\ LET request == req[r]
         bundle == loc[r].result
         p == request.pathname
         denied == authorize(request, bundle.flags)
         op == route(p, request.method)
         here == [loc[r] EXCEPT !.result = NullBundle]
     IN IF (IsAdminPath(p) \/ IsApiPath(p)) /\ denied # 0
        THEN /\ pc' = Set(pc, r, "done")
             /\ resp' = Set(resp, r, JsonResponse(denied, <<"error", "denied">>))
             /\ loc' = Set(loc, r, here)
             /\ UNCHANGED <<cachedConfig, uuid, trace>>
        ELSE IF IsAdminPath(p)
        THEN /\ pc' = Set(pc, r, "done")
             /\ resp' = Set(resp, r, [kind |-> "html", status |-> 200,
                                      location |-> [base |-> "", query |-> <<>>],
                                      headers |-> {<<"Cache-Control", "no-store">>,
                                                   <<"X-Frame-Options", "DENY">>},
                                      body |-> <<"admin", bundle.flags.uiTitle>>])
             /\ loc' = Set(loc, r, here)
             /\ UNCHANGED <<cachedConfig, uuid, trace>>
        ELSE IF IsApiPath(p) /\ op \in {"routes.put", "routes.patch", "routes.validate",
                                        "flags.put", "import"}
        THEN /\ pc' = Set(pc, r, BodyPc(op))
             /\ loc' = Set(loc, r, [here EXCEPT !.action = op])
             /\ UNCHANGED <<cachedConfig, uuid, resp, trace>>
        ELSE IF IsApiPath(p) /\ op \in {"routes.get", "routes.delete", "flags.get", "export"}
        THEN /\ pc' = Set(pc, r, hydratePc(TRUE, ReloadRet(op)))
             /\ loc' = Set(loc, r, hydrateLoc([here EXCEPT !.action = op], TRUE, ReloadRet(op)))
             /\ UNCHANGED <<cachedConfig, uuid, resp, trace>>
        ELSE IF IsApiPath(p) /\ op = "cache.invalidate"
        THEN \* handleCacheInvalidate up to the await of writeAudit
             /\ cachedConfig' = invalidateCache
             /\ uuid' = uuid + 1
             /\ pc' = Set(pc, r, "audit")
             /\ loc' = Set(loc, r, [here EXCEPT
                    !.action = op,
                    !.pendingAudit = writeAudit(AuditEntry(now, buildActor(request),
                                        "cache.invalidate", <<>>, <<>>, "", loc[r].serial))])
             /\ trace' = Set(trace, r, Append(trace[r], "invalidate"))
             /\ UNCHANGED resp
        ELSE IF IsApiPath(p) /\ op = "audit"
        THEN /\ pc' = Set(pc, r, "audit_list")
             /\ loc' = Set(loc, r, [here EXCEPT !.action = op])
             /\ UNCHANGED <<cachedConfig, uuid, resp, trace>>
        ELSE IF IsApiPath(p)
        THEN /\ pc' = Set(pc, r, "done")
             /\ resp' = Set(resp, r, JsonResponse(404, <<"error", "not_found">>))
             /\ loc' = Set(loc, r, here)
             /\ UNCHANGED <<cachedConfig, uuid, trace>>
        ELSE IF request.method # "GET"
        THEN \* return fetch(request)
             /\ pc' = Set(pc, r, "done")
             /\ resp' = Set(resp, r, OriginResponse)
             /\ loc' = Set(loc, r, here)
             /\ UNCHANGED <<cachedConfig, uuid, trace>>
        ELSE \* handleRuntimeRequest up to the await of hydrateCache(env)
             /\ pc' = Set(pc, r, hydratePc(FALSE, "runtime"))
             /\ loc' = Set(loc, r, hydrateLoc([here EXCEPT !.action = "runtime"], FALSE, "runtime"))
             /\ UNCHANGED <<cachedConfig, uuid, resp, trace>>
  /\ UNCHANGED <<rtVars, kv, audit, initPromise, boot, detached, now, fails, starts, req>>

\* handleRuntimeRequest, lines 1275-1289.
Runtime(r) ==
  /\ pc[r] = "runtime"
  /\ pc' = Set(pc, r, "done")
  /\ resp' = Set(resp, r, handleRuntimeRequest(loc[r].result, req[r]).response)
  /\ loc' = Set(loc, r, [loc[r] EXCEPT !.result = NullBundle])
  /\ UNCHANGED <<rtVars, sharedVars, req, trace>>

\* The response has been sent; the context is free for another request.
Finish(r) ==
  /\ pc[r] = "done"
  /\ pc' = Set(pc, r, "idle")
  /\ req' = Set(req, r, NoRequest)
  /\ loc' = Set(loc, r, NoLoc)
  /\ resp' = Set(resp, r, NoResponse)
  /\ trace' = Set(trace, r, <<>>)
  /\ UNCHANGED <<rtVars, sharedVars>>

(***************************************************************************)
(* The admin handlers.                                                     *)
(***************************************************************************)
\* handleRoutesGet, handleFlagsGet, handleExport after hydrateCache(env, true).
ReadDone(r) ==
  /\ pc[r] = "read"
  /\ pc' = Set(pc, r, "done")
  /\ resp' = Set(resp, r, JsonResponse(200, <<loc[r].action, loc[r].result.etag>>))
  /\ loc' = Set(loc, r, [loc[r] EXCEPT !.result = NullBundle])
  /\ UNCHANGED <<rtVars, sharedVars, req, trace>>

\* handleAudit: the list and the gets of the AUDIT namespace.
AuditList(r) ==
  /\ pc[r] = "audit_list"
  /\ \/ /\ pc' = Set(pc, r, "done")
        /\ resp' = Set(resp, r, JsonResponse(200, <<"audit", Cardinality(audit)>>))
        /\ UNCHANGED <<fails, trace>>
     \/ /\ MayFail
        /\ fails' = fails + 1
        /\ Thrown(r, "list", "fail.list")
  /\ UNCHANGED <<rtVars, kv, audit, cachedConfig, initPromise, boot, detached, now, uuid, starts,
                 req, loc>>

\* handleRoutesValidate.
ValidateBody(r) ==
  /\ pc[r] = "validate_body"
  /\ LET body == req[r].body
         message == IF body.kind = "empty" THEN "Empty body"
                    ELSE validateRoutesPayload(body.routes)
     IN IF message # ""
        THEN Thrown(r, message, "throw.validation")
        ELSE /\ pc' = Set(pc, r, "done")
             /\ resp' = Set(resp, r, JsonResponse(200, <<"ok">>))
             /\ UNCHANGED trace
  /\ UNCHANGED <<rtVars, sharedVars, req, loc>>

\* handleRoutesPut, lines 1033-1037.
PutBody(r) ==
  /\ pc[r] = "put_body"
  /\ LET body == req[r].body
         message == IF body.kind = "empty" THEN "Empty body"
                    ELSE validateRoutesPayload(body.routes)
     IN IF message # ""
        THEN Thrown(r, message, "throw.validation") /\ UNCHANGED loc
        ELSE /\ pc' = Set(pc, r, hydratePc(TRUE, "put"))
             /\ loc' = Set(loc, r, hydrateLoc([loc[r] EXCEPT !.newRoutes = body.routes.items],
                                              TRUE, "put"))
             /\ UNCHANGED <<resp, trace>>
  /\ UNCHANGED <<rtVars, sharedVars, req>>

\* The If-Match test that never refuses.
etagMismatch_Never(ifMatch, current) == FALSE

\* The If-Match test of handleRoutesPut, line 1039: TRUE when the PUT is refused.
etagMismatch(ifMatch, current) == ifMatch # NoIfMatch /\ ifMatch # current.etag

\* handleRoutesPut, lines 1038-1048.
Put(r) ==
  /\ pc[r] = "put"
  /\ LET current == loc[r].result
     IN IF etagMismatch(req[r].ifMatch, current)
        THEN /\ pc' = Set(pc, r, "done")
             /\ resp' = Set(resp, r, JsonResponse(412, <<"error", "etag mismatch">>))
             /\ loc' = Set(loc, r, [loc[r] EXCEPT !.result = NullBundle, !.newRoutes = <<>>])
        ELSE /\ pc' = Set(pc, r, "w_routes")
             /\ loc' = Set(loc, r, [loc[r] EXCEPT !.result = NullBundle, !.current = current])
             /\ UNCHANGED resp
  /\ UNCHANGED <<rtVars, sharedVars, req, trace>>

\* handleRoutesPatch, lines 1084-1086.
PatchBody(r) ==
  /\ pc[r] = "patch_body"
  /\ IF req[r].body.kind = "empty"
     THEN Thrown(r, "Empty body", "throw.validation") /\ UNCHANGED loc
     ELSE /\ pc' = Set(pc, r, hydratePc(TRUE, "patch"))
          /\ loc' = Set(loc, r, hydrateLoc(loc[r], TRUE, "patch"))
          /\ UNCHANGED <<resp, trace>>
  /\ UNCHANGED <<rtVars, sharedVars, req>>

\* The lookup returning the last rule with the id instead of the first.
findIndex_Last(routes, id) ==
  IF \E i \in 1..Len(routes) : routes[i].id = id
  THEN CHOOSE i \in 1..Len(routes) :
         routes[i].id = id /\ \A j \in (i + 1)..Len(routes) : routes[j].id # id
  ELSE 0

\* routes.findIndex((route) => route.id === id); 0 when there is none.
findIndex(routes, id) ==
  IF \E i \in 1..Len(routes) : routes[i].id = id
  THEN CHOOSE i \in 1..Len(routes) : routes[i].id = id /\ \A j \in 1..(i - 1) : routes[j].id # id
  ELSE 0

\* { ...rule, ...patch }: the keys the patch has replace the rule's.
spread(rule, patch) ==
  [isObject |-> TRUE,
   present |-> rule.present \cup patch.present,
   id |-> IF "id" \in patch.present THEN patch.id ELSE rule.id,
   enabled |-> IF "enabled" \in patch.present THEN patch.enabled ELSE rule.enabled,
   match |-> IF "match" \in patch.present THEN patch.match ELSE rule.match,
   action |-> IF "action" \in patch.present THEN patch.action ELSE rule.action]

\* handleRoutesPatch, lines 1087-1099.
Patch(r) ==
  /\ pc[r] = "patch"
  /\ LET current == loc[r].result
         id == Last(req[r].pathname)
         existingIndex == findIndex(current.routes, id)
         updated == spread(current.routes[existingIndex], req[r].body.patch)
         routes == [current.routes EXCEPT ![existingIndex] = updated]
         message == validateRoutesPayload([isArray |-> TRUE, items |-> routes])
     IN IF existingIndex = 0
        THEN /\ pc' = Set(pc, r, "done")
             /\ resp' = Set(resp, r, JsonResponse(404, <<"error", "not_found">>))
             /\ loc' = Set(loc, r, [loc[r] EXCEPT !.result = NullBundle])
             /\ UNCHANGED trace
        ELSE IF message # ""
        THEN /\ Thrown(r, message, "throw.validation")
             /\ loc' = Set(loc, r, [loc[r] EXCEPT !.result = NullBundle])
        ELSE /\ pc' = Set(pc, r, "w_routes")
             /\ loc' = Set(loc, r, [loc[r] EXCEPT !.result = NullBundle, !.current = current,
                                                  !.newRoutes = routes])
             /\ UNCHANGED <<resp, trace>>
  /\ UNCHANGED <<rtVars, sharedVars, req>>

\* current.routes.filter((route) => route.id !== id)
RECURSIVE filterOut(_, _)
filterOut(routes, id) ==
  IF routes = <<>> THEN <<>>
  ELSE IF Head(routes).id = id THEN filterOut(Tail(routes), id)
       ELSE <<Head(routes)>> \o filterOut(Tail(routes), id)

\* handleRoutesDelete, lines 1123-1130.
Delete(r) ==
  /\ pc[r] = "delete"
  /\ LET current == loc[r].result
         next == filterOut(current.routes, Last(req[r].pathname))
     IN IF Len(next) = Len(current.routes)
        THEN /\ pc' = Set(pc, r, "done")
             /\ resp' = Set(resp, r, JsonResponse(404, <<"error", "not_found">>))
             /\ loc' = Set(loc, r, [loc[r] EXCEPT !.result = NullBundle])
        ELSE /\ pc' = Set(pc, r, "w_routes")
             /\ loc' = Set(loc, r, [loc[r] EXCEPT !.result = NullBundle, !.current = current,
                                                  !.newRoutes = next])
             /\ UNCHANGED resp
  /\ UNCHANGED <<rtVars, sharedVars, req, trace>>

\* handleFlagsPut, lines 1161-1165.
FlagsBody(r) ==
  /\ pc[r] = "flags_body"
  /\ LET body == req[r].body
         message == IF body.kind = "empty" THEN "Empty body"
                    ELSE validateFlagsPayload(body.flags)
     IN IF message # ""
        THEN Thrown(r, message, "throw.validation") /\ UNCHANGED loc
        ELSE /\ pc' = Set(pc, r, hydratePc(TRUE, "flags_put"))
             /\ loc' = Set(loc, r, hydrateLoc([loc[r] EXCEPT !.newFlags = body.flags.value],
                                              TRUE, "flags_put"))
             /\ UNCHANGED <<resp, trace>>
  /\ UNCHANGED <<rtVars, sharedVars, req>>

\* handleFlagsPut, lines 1165-1166.
FlagsPut(r) ==
  /\ pc[r] = "flags_put"
  /\ pc' = Set(pc, r, "w_flags")
  /\ loc' = Set(loc, r, [loc[r] EXCEPT !.result = NullBundle, !.current = loc[r].result])
  /\ UNCHANGED <<rtVars, sharedVars, req, resp, trace>>

\* handleImport, lines 1243-1250.
ImportBody(r) ==
  /\ pc[r] = "import_body"
  /\ LET body == req[r].body
         m1 == IF body.kind = "empty" THEN "Empty body" ELSE validateRoutesPayload(body.routes)
         message == IF m1 # "" THEN m1 ELSE validateFlagsPayload(body.flags)
     IN IF message # ""
        THEN Thrown(r, message, "throw.validation") /\ UNCHANGED loc
        ELSE /\ pc' = Set(pc, r, hydratePc(TRUE, "import"))
             /\ loc' = Set(loc, r, hydrateLoc([loc[r] EXCEPT !.newRoutes = body.routes.items,
                                                             !.newFlags = body.flags.value],
                                              TRUE, "import"))
             /\ UNCHANGED <<resp, trace>>
  /\ UNCHANGED <<rtVars, sharedVars, req>>

\* handleImport, lines 1250-1251.
Import(r) ==
  /\ pc[r] = "import"
  /\ pc' = Set(pc, r, "w_routes")
  /\ loc' = Set(loc, r, [loc[r] EXCEPT !.result = NullBundle, !.current = loc[r].result])
  /\ UNCHANGED <<rtVars, sharedVars, req, resp, trace>>

(***************************************************************************)
(* The write sequence the mutating handlers share: the puts of the new     *)
(* routes and flags, updateMetadata, invalidateCache, the forced reload    *)
(* and writeAudit.                                                         *)
(***************************************************************************)
\* updateMetadata up to its await: the record whose put it issues.
updateMetadata(actor) == [version |-> CONFIG_VERSION, updatedAt |-> now, updatedBy |-> actor]

\* The put of the routes completes (lines 1048, 1099, 1130, 1251).
WriteRoutes(r) ==
  /\ pc[r] = "w_routes"
  /\ \/ /\ kv' = Set(kv, "routes", Stored(JSONstringify(loc[r].newRoutes)))
        /\ trace' = Set(trace, r, Append(trace[r], "put.routes"))
        /\ IF loc[r].action = "import"
           THEN /\ pc' = Set(pc, r, "w_flags")
                /\ UNCHANGED loc
           ELSE /\ pc' = Set(pc, r, "w_meta")
                /\ loc' = Set(loc, r, [loc[r] EXCEPT !.metadata = updateMetadata(buildActor(req[r]))])
        /\ UNCHANGED <<fails, resp>>
     \/ /\ MayFail
        /\ fails' = fails + 1
        /\ Thrown(r, "put", "fail.put.routes")
        /\ UNCHANGED <<kv, loc>>
  /\ UNCHANGED <<rtVars, audit, cachedConfig, initPromise, boot, detached, now, uuid, starts, req>>

\* The put of the flags completes (lines 1166, 1252).
WriteFlags(r) ==
  /\ pc[r] = "w_flags"
  /\ \/ /\ kv' = Set(kv, "flags", Stored(JSONstringify(loc[r].newFlags)))
        /\ trace' = Set(trace, r, Append(trace[r], "put.flags"))
        /\ pc' = Set(pc, r, "w_meta")
        /\ loc' = Set(loc, r, [loc[r] EXCEPT !.metadata = updateMetadata(buildActor(req[r]))])
        /\ UNCHANGED <<fails, resp>>
     \/ /\ MayFail
        /\ fails' = fails + 1
        /\ Thrown(r, "put", "fail.put.flags")
        /\ UNCHANGED <<kv, loc>>
  /\ UNCHANGED <<rtVars, audit, cachedConfig, initPromise, boot, detached, now, uuid, starts, req>>

\* The put of updateMetadata completes; invalidateCache(); hydrateCache(env, true).
WriteMetadata(r) ==
  /\ pc[r] = "w_meta"
  /\ \/ /\ kv' = Set(kv, "metadata", Stored(JSONstringify(loc[r].metadata)))
        /\ cachedConfig' = invalidateCache
        /\ trace' = Set(trace, r, trace[r] \o <<"put.metadata", "invalidate">>)
        /\ pc' = Set(pc, r, hydratePc(TRUE, "reloaded"))
        /\ loc' = Set(loc, r, hydrateLoc(loc[r], TRUE, "reloaded"))
        /\ UNCHANGED <<fails, resp>>
     \/ /\ MayFail
        /\ fails' = fails + 1
        /\ Thrown(r, "put", "fail.put.metadata")
        /\ UNCHANGED <<kv, cachedConfig, loc>>
  /\ UNCHANGED <<rtVars, audit, initPromise, boot, detached, now, uuid, starts, req>>

\* The audit action name of a handler.
auditAction(op) ==
  CASE op = "routes.put" -> "routes.update"
    [] op = "flags.put" -> "flags.update"
    [] op = "import" -> "config.import"
    [] OTHER -> op

\* The handlers stamping the audit entry with the time of the writeAudit call
\* instead of metadata.updatedAt.
Reloaded_StampedNow(r) ==
  /\ pc[r] = "reloaded"
  /\ uuid' = uuid + 1
  /\ pc' = Set(pc, r, "audit")
  /\ loc' = Set(loc, r, [loc[r] EXCEPT
         !.pendingAudit = writeAudit(AuditEntry(now, buildActor(req[r]),
                                                auditAction(loc[r].action), loc[r].current.etag,
                                                loc[r].result.etag, "", loc[r].serial))])
  /\ UNCHANGED <<rtVars, kv, audit, cachedConfig, initPromise, boot, detached, now, fails, starts,
                 req, resp, trace>>

\* After the forced reload: writeAudit is called (lines 1053, 1103, 1134, 1170, 1256).
Reloaded(r) ==
  /\ pc[r] = "reloaded"
  /\ uuid' = uuid + 1
  /\ pc' = Set(pc, r, "audit")
  /\ loc' = Set(loc, r, [loc[r] EXCEPT
         !.pendingAudit = writeAudit(AuditEntry(loc[r].metadata.updatedAt, buildActor(req[r]),
                                                auditAction(loc[r].action), loc[r].current.etag,
                                                loc[r].result.etag, "", loc[r].serial))])
  /\ UNCHANGED <<rtVars, kv, audit, cachedConfig, initPromise, boot, detached, now, fails, starts,
                 req, resp, trace>>

\* writeAudit without its try/catch: a put that throws fails the handler.
Audit_Rethrows(r) ==
  /\ pc[r] = "audit"
  /\ \/ /\ audit' = kvPut(audit, loc[r].pendingAudit.key, loc[r].pendingAudit.text)
        /\ trace' = Set(trace, r, Append(trace[r], "audit"))
        /\ pc' = Set(pc, r, "done")
        /\ resp' = Set(resp, r, JsonResponse(200, IF loc[r].action \in {"flags.put", "cache.invalidate"}
                                                    THEN <<"ok">>
                                                    ELSE <<"ok", loc[r].result.etag>>))
        /\ UNCHANGED fails
     \/ /\ MayFail
        /\ fails' = fails + 1
        /\ Thrown(r, "put", "audit.failed")
        /\ UNCHANGED audit
  /\ UNCHANGED <<rtVars, kv, cachedConfig, initPromise, boot, detached, now, uuid, starts, req, loc>>

\* The put of writeAudit completes, or throws and is swallowed; the handler
\* returns its response.
Audit(r) ==
  /\ pc[r] = "audit"
  /\ \/ /\ audit' = kvPut(audit, loc[r].pendingAudit.key, loc[r].pendingAudit.text)
        /\ trace' = Set(trace, r, Append(trace[r], "audit"))
        /\ UNCHANGED fails
     \/ /\ MayFail
        /\ fails' = fails + 1
        /\ trace' = Set(trace, r, Append(trace[r], "audit.failed"))
        /\ UNCHANGED audit
  /\ pc' = Set(pc, r, "done")
  /\ resp' = Set(resp, r, JsonResponse(200, IF loc[r].action \in {"flags.put", "cache.invalidate"}
                                              THEN <<"ok">>
                                              ELSE <<"ok", loc[r].result.etag>>))
  /\ UNCHANGED <<rtVars, kv, cachedConfig, initPromise, boot, detached, now, uuid, starts, req, loc>>

\* Date.now() advances.
Elapse ==
  /\ now < MaxTicks * MIN_TTL
  /\ now' = now + MIN_TTL
  /\ UNCHANGED <<rtVars, kv, audit, cachedConfig, initPromise, boot, detached, uuid, fails, starts,
                 reqVars>>

\* Date.now() advances between two requests (the first request arrives at 0).
Tick ==
  /\ starts > 0
  /\ \A r \in Slots : pc[r] = "idle"
  /\ boot = NoBoot
  /\ Elapse

\* The process is evicted and a new one starts on the next request: the
\* module variables are those of a fresh module, the namespaces keep what
\* they hold, the puts the old process left in flight are lost.
Restart ==
  /\ starts > 0
  /\ \A r \in Slots : pc[r] = "idle"
  /\ boot = NoBoot
  /\ ~cachedConfig.isNull \/ detached # {}
  /\ cachedConfig' = NullBundle
  /\ detached' = {}
  /\ UNCHANGED <<rtVars, kv, audit, initPromise, boot, now, uuid, fails, starts, reqVars>>

(***************************************************************************)
(* The requests the worker receives.                                       *)
(***************************************************************************)
Credentials(authorization, queryToken, cfConnectingIp, xForwardedFor) ==
  [authorization |-> authorization, queryToken |-> queryToken,
   cfConnectingIp |-> cfConnectingIp, xForwardedFor |-> xForwardedFor]

CredGood == Credentials(Bearer("secret"), "", "10.0.0.1", "")
CredQuery == Credentials(NoAuthorization, "secret", "", " 10.0.0.1")
CredWrong == Credentials(Bearer("wrong"), "secret", "10.0.0.1", "")
CredNone == Credentials(NoAuthorization, "", "10.0.0.1", "")
CredOtherIp == Credentials(Bearer("secret"), "", "10.0.0.2", "")

AdminRequest(method, pathname, cred, ifMatch, body) ==
  Request(method, pathname, {}, "", FALSE, cred.authorization, cred.queryToken,
          cred.cfConnectingIp, cred.xForwardedFor, ifMatch, body)

ArrayOf(items) == [isArray |-> TRUE, items |-> items]
NotArray == [isArray |-> FALSE, items |-> <<>>]
ObjectOf(value) == [isObject |-> TRUE, value |-> value]
NotObject == [isObject |-> FALSE, value |-> DEFAULT_FLAGS]

NoPatch == [present |-> {}, id |-> "", enabled |-> "unset",
            match |-> MatchRule(PathUnset, ListUnset, ListUnset, "unset"),
            action |-> ResponseBlocked]

Body(routes, flags, patch) == [kind |-> "json", routes |-> routes, flags |-> flags, patch |-> patch]

RoutesBody(routes) == Body(routes, NotObject, NoPatch)
FlagsBodyOf(flags) == Body(NotArray, flags, NoPatch)
PatchBodyOf(patch) == Body(NotArray, NotObject, patch)

RuleNoId == [RulePromo EXCEPT !.present = {"match", "action"}, !.id = ""]
RuleNoMatch == [RulePromo EXCEPT !.present = {"id", "action"}]
RuleNoAction == [RulePromo EXCEPT !.present = {"id", "match"}]
RuleNoTarget == [DEFAULT_ROUTES[1] EXCEPT !.action.target = ""]
NotARule == [RulePromo EXCEPT !.isObject = FALSE]

InvalidRoutesPayloads ==
  {NotArray, ArrayOf(<<RulePromo, RuleNoId>>), ArrayOf(<<RuleNoMatch>>), ArrayOf(<<RuleNoAction>>),
   ArrayOf(<<RuleNoTarget>>), ArrayOf(<<NotARule>>)}

PatchDisable == [NoPatch EXCEPT !.present = {"enabled"}, !.enabled = "false"]
PatchNoTarget == [NoPatch EXCEPT !.present = {"action"}, !.action = RuleNoTarget.action]
PatchNoId == [NoPatch EXCEPT !.present = {"id"}, !.id = ""]

\* The etag a client holds: that of the defaults, or that of what the store
\* holds when the request is sent.
EtagOfDefaults ==
  computeEtag([routes |-> DEFAULT_ROUTES, flags |-> DEFAULT_FLAGS,
               metadata |-> [version |-> CONFIG_VERSION]])

EtagOfLocked ==
  computeEtag([routes |-> RoutesPromo, flags |-> FlagsLocked,
               metadata |-> [version |-> CONFIG_VERSION]])

\* The store after an import of RoutesPromo and FlagsLocked at time t.
LockedStore(t) ==
  [k \in Keys |->
     CASE k = "routes" -> Stored(JSONstringify(RoutesPromo))
       [] k = "flags" -> Stored(JSONstringify(FlagsLocked))
       [] OTHER -> Stored(JSONstringify([version |-> CONFIG_VERSION, updatedAt |-> t,
                                         updatedBy |-> <<"admin@ip-", "10.0.0.1">>]))]

DefaultId == DEFAULT_ROUTES[1].id

RuntimeTraffic ==
  {RuntimeRequest("GET", <<"casino", "spins100">>, {"iphone"}, "ru", FALSE),
   RuntimeRequest("GET", <<"promo", "x">>, {"googlebot"}, "", FALSE),
   RuntimeRequest("POST", <<"casino", "spins100">>, {"iphone"}, "RU", FALSE)}

Endpoints ==
  {<<"GET", <<"admin">>>>, <<"GET", <<"api", "routes">>>>, <<"PUT", <<"api", "routes">>>>,
   <<"PATCH", <<"api", "routes", DefaultId>>>>, <<"DELETE", <<"api", "routes", DefaultId>>>>,
   <<"POST", <<"api", "routes", "validate">>>>, <<"GET", <<"api", "flags">>>>,
   <<"PUT", <<"api", "flags">>>>, <<"POST", <<"api", "cache", "invalidate">>>>,
   <<"GET", <<"api", "audit">>>>, <<"GET", <<"api", "export">>>>, <<"POST", <<"api", "import">>>>,
   <<"GET", <<"api", "nope">>>>}

\* Requests that authorize refuses when the token is wrong or missing, or
\* when the allow list is set and the address is not on it.
UnauthorizedTraffic ==
  {AdminRequest(e[1], e[2], CredWrong, NoIfMatch, RoutesBody(ArrayOf(RoutesPromo))) :
     e \in {<<"GET", <<"admin">>>>, <<"PUT", <<"api", "routes">>>>,
             <<"POST", <<"api", "cache", "invalidate">>>>, <<"GET", <<"api", "audit">>>>,
             <<"POST", <<"api", "import">>>>}}
  \cup {AdminRequest(e[1], e[2], cred, EtagOfDefaults, RoutesBody(ArrayOf(RoutesPromo))) :
          e \in {<<"GET", <<"admin">>>>, <<"PUT", <<"api", "routes">>>>},
          cred \in {CredNone, CredOtherIp}}

ReadTraffic ==
  {AdminRequest(e[1], e[2], cred, NoIfMatch, NoBody) :
     e \in {e \in Endpoints : e[1] = "GET" /\ e[2] # <<"api", "flags">>}, cred \in {CredGood}}
  \cup {AdminRequest("GET", <<"admin">>, CredQuery, NoIfMatch, NoBody)}
  \cup {AdminRequest("POST", <<"api", "cache", "invalidate">>, CredGood, NoIfMatch, NoBody)}
  \cup {AdminRequest("POST", <<"api", "routes", "validate">>, CredGood, NoIfMatch, RoutesBody(p)) :
          p \in {ArrayOf(RoutesPromo), ArrayOf(<<RuleNoTarget>>)}}

MutationTraffic ==
  {AdminRequest("PUT", <<"api", "routes">>, CredGood, ifMatch, RoutesBody(ArrayOf(RoutesPromo))) :
     ifMatch \in {NoIfMatch, EtagOfDefaults, EtagOfLocked}}
  \cup {AdminRequest("PUT", <<"api", "routes">>, CredGood, ifMatch, RoutesBody(ArrayOf(<<>>))) :
          ifMatch \in {NoIfMatch, EtagOfDefaults}}
  \cup {AdminRequest("PUT", <<"api", "routes">>, CredGood, EtagOfDefaults, b) :
          b \in {RoutesBody(p) : p \in InvalidRoutesPayloads} \cup {NoBody}}
  \cup {AdminRequest("PATCH", <<"api", "routes", DefaultId>>, CredGood, NoIfMatch,
                       PatchBodyOf(patch)) : patch \in {PatchDisable, PatchNoTarget, PatchNoId}}
  \cup {AdminRequest("PATCH", <<"api", "routes", "rule-promo">>, CredGood, NoIfMatch,
                       PatchBodyOf(PatchDisable))}
  \cup {AdminRequest("DELETE", <<"api", "routes", id>>, CredGood, NoIfMatch, NoBody) :
          id \in {DefaultId, "rule-promo"}}
  \cup {AdminRequest("PUT", <<"api", "flags">>, CredGood, NoIfMatch, FlagsBodyOf(f)) :
          f \in {ObjectOf(FlagsLocked), NotObject}}
  \cup {AdminRequest("POST", <<"api", "import">>, CredGood, NoIfMatch, Body(b[1], b[2], NoPatch)) :
          b \in {<<ArrayOf(RoutesPromo), ObjectOf(FlagsLocked)>>,
                  <<ArrayOf(<<RuleNoTarget>>), ObjectOf(FlagsLocked)>>,
                  <<ArrayOf(RoutesPromo), NotObject>>}}

Traffic == RuntimeTraffic \cup UnauthorizedTraffic \cup ReadTraffic \cup MutationTraffic

(***************************************************************************)
(* The worker process starts: the store is empty (first deployment), holds *)
(* the defaults an earlier process wrote, or holds what an earlier import  *)
(* wrote; no request has arrived.                                          *)
(***************************************************************************)
Init ==
  /\ RtIdle
  /\ kv \in {EmptyStore, DefaultStore(0), LockedStore(0)}
  /\ ProcInit

\* The steps of the handler of context r.
Step(r) ==
  \/ AfterInit(r)
  \/ \E k \in Keys : LoadRead(r, k)
  \/ Install(r)
  \/ Fetch(r)
  \/ Runtime(r)
  \/ ReadDone(r)
  \/ AuditList(r)
  \/ ValidateBody(r)
  \/ PutBody(r)
  \/ Put(r)
  \/ PatchBody(r)
  \/ Patch(r)
  \/ Delete(r)
  \/ FlagsBody(r)
  \/ FlagsPut(r)
  \/ ImportBody(r)
  \/ Import(r)
  \/ WriteRoutes(r)
  \/ WriteFlags(r)
  \/ WriteMetadata(r)
  \/ Reloaded(r)
  \/ Audit(r)
  \/ Finish(r)

Bootstrap ==
  \/ BootGetMetadata
  \/ \E k \in Keys : BootPut(k)
  \/ \E d \in detached : DetachedPut(d)
  \/ BootAudit
  \/ BootErrorAudit

\* Requests of every kind, handled one after the other.
Next ==
  \/ \E request \in Traffic : Start(1, request)
  \/ Bootstrap
  \/ Step(1)
  \/ Tick

Spec == Init /\ [][Next]_vars

(***************************************************************************)
(* Two clients that both hold the etag of the defaults send their PUT      *)
(* /api/routes to the same process at once: the handlers interleave at     *)
(* every await.                                                            *)
(***************************************************************************)
RaceTraffic ==
  {AdminRequest("PUT", <<"api", "routes">>, CredGood, EtagOfDefaults, RoutesBody(ArrayOf(p))) :
     p \in {RoutesPromo, <<>>}}

RaceInit ==
  /\ RtIdle
  /\ kv = DefaultStore(0)
  /\ ProcInit

RaceStep(r) ==
  \/ AfterInit(r)
  \/ \E k \in Keys : LoadRead(r, k)
  \/ Install(r)
  \/ Fetch(r)
  \/ PutBody(r)
  \/ Put(r)
  \/ WriteRoutes(r)
  \/ WriteMetadata(r)
  \/ Reloaded(r)
  \/ Audit(r)
  \/ Finish(r)

\* One request for each of the concurrent contexts.
RaceStart(r, request) == Receive(r, request, Cardinality(Slots))

RaceNext ==
  \/ \E r \in Slots, request \in RaceTraffic : RaceStart(r, request)
  \/ BootGetMetadata
  \/ \E r \in Slots : RaceStep(r)

SpecRace == RaceInit /\ [][RaceNext]_vars

(***************************************************************************)
(* Bootstrap: a runtime request and a request for the admin page arrive    *)
(* together or one after the other at a process whose store is empty,      *)
(* holds the defaults, or holds an import; store operations may throw and  *)
(* the process may be evicted between requests.                            *)
(***************************************************************************)
BootTraffic ==
  {RuntimeRequest("GET", <<"casino", "spins100">>, {"iphone"}, "ru", FALSE),
   AdminRequest("GET", <<"admin">>, CredGood, NoIfMatch, NoBody)}

BootInit ==
  /\ RtIdle
  /\ kv \in {EmptyStore, DefaultStore(0), LockedStore(0)}
  /\ ProcInit

BootStart(r, request) == Receive(r, request, MaxStarts + 1)

BootStep(r) ==
  \/ AfterInit(r)
  \/ \E k \in Keys : LoadRead(r, k)
  \/ Install(r)
  \/ Fetch(r)
  \/ Runtime(r)
  \/ Finish(r)

BootNext ==
  \/ \E r \in Slots, request \in BootTraffic : BootStart(r, request)
  \/ Bootstrap
  \/ \E r \in Slots : BootStep(r)
  \/ Restart

SpecBoot == BootInit /\ [][BootNext]_vars

(***************************************************************************)
(* The cache: runtime requests, cache invalidations and flag updates       *)
(* arrive one after the other while the clock advances at any moment and   *)
(* store operations may throw; the store holds the defaults, an import, or *)
(* flags whose cacheTtlMs is 0, negative, above the default, or missing.   *)
(***************************************************************************)
TtlFlags(ttl) == [DEFAULT_FLAGS EXCEPT !.cacheTtlMs = ttl]

FlagsNoTtl == [k \in DOMAIN DEFAULT_FLAGS \ {"cacheTtlMs"} |-> DEFAULT_FLAGS[k]]

FlagsStore(flags, t) == [DefaultStore(t) EXCEPT !["flags"] = Stored(JSONstringify(flags))]

CacheStores ==
  {DefaultStore(0), LockedStore(0), FlagsStore(FlagsNoTtl, 0)}
  \cup {FlagsStore(TtlFlags(ttl), 0) : ttl \in {0, 0 - 1, 70000}}

CacheTraffic ==
  {RuntimeRequest("GET", <<"casino", "spins100">>, {"iphone"}, "ru", FALSE),
   AdminRequest("POST", <<"api", "cache", "invalidate">>, CredGood, NoIfMatch, NoBody),
   AdminRequest("PUT", <<"api", "flags">>, CredGood, NoIfMatch, FlagsBodyOf(ObjectOf(DEFAULT_FLAGS)))}

CacheInit ==
  /\ RtIdle
  /\ kv \in CacheStores
  /\ ProcInit

CacheStart(r, request) == Receive(r, request, MaxStarts + 1)

CacheStep(r) ==
  \/ AfterInit(r)
  \/ \E k \in Keys : LoadRead(r, k)
  \/ Install(r)
  \/ Fetch(r)
  \/ Runtime(r)
  \/ FlagsBody(r)
  \/ FlagsPut(r)
  \/ WriteFlags(r)
  \/ WriteMetadata(r)
  \/ Reloaded(r)
  \/ Audit(r)
  \/ Finish(r)

CacheNext ==
  \/ \E request \in CacheTraffic : CacheStart(1, request)
  \/ BootGetMetadata
  \/ BootErrorAudit
  \/ CacheStep(1)
  \/ Elapse

SpecCache == CacheInit /\ [][CacheNext]_vars

(***************************************************************************)
(* Route lists that name an id twice, sent through each endpoint that      *)
(* stores routes: a PUT and an import whose list repeats a rule, and a      *)
(* PATCH that renames a rule to the id of another.                          *)
(***************************************************************************)
PatchRename == [NoPatch EXCEPT !.present = {"id"}, !.id = DefaultId]

IdsTraffic ==
  {AdminRequest("PUT", <<"api", "routes">>, CredGood, NoIfMatch,
                RoutesBody(ArrayOf(<<RulePromo, RulePromo>>))),
   AdminRequest("PATCH", <<"api", "routes", "rule-promo">>, CredGood, NoIfMatch,
                PatchBodyOf(PatchRename)),
   AdminRequest("DELETE", <<"api", "routes", DefaultId>>, CredGood, NoIfMatch, NoBody),
   AdminRequest("POST", <<"api", "import">>, CredGood, NoIfMatch,
                Body(ArrayOf(DEFAULT_ROUTES \o DEFAULT_ROUTES), ObjectOf(FlagsLocked), NoPatch))}

IdsInit ==
  /\ RtIdle
  /\ kv \in {DefaultStore(0), LockedStore(0)}
  /\ ProcInit

IdsStep(r) ==
  \/ AfterInit(r)
  \/ \E k \in Keys : LoadRead(r, k)
  \/ Install(r)
  \/ Fetch(r)
  \/ PutBody(r)
  \/ Put(r)
  \/ PatchBody(r)
  \/ Patch(r)
  \/ Delete(r)
  \/ ImportBody(r)
  \/ Import(r)
  \/ WriteRoutes(r)
  \/ WriteFlags(r)
  \/ WriteMetadata(r)
  \/ Reloaded(r)
  \/ Audit(r)
  \/ Finish(r)

IdsNext ==
  \/ \E request \in IdsTraffic : Start(1, request)
  \/ BootGetMetadata
  \/ BootErrorAudit
  \/ IdsStep(1)

SpecIds == IdsInit /\ [][IdsNext]_vars

(***************************************************************************)
(* Mutations one at a time on an initialised store while the clock runs:   *)
(* every mutating endpoint with a payload that passes, a PATCH and a DELETE *)
(* for an id no rule has, and a store that holds one id twice.              *)
(***************************************************************************)
RulePromoOn == [RulePromo EXCEPT !.enabled = "true"]

TwiceStore(t) ==
  [LockedStore(t) EXCEPT !["routes"] = Stored(JSONstringify(<<RulePromo>> \o DEFAULT_ROUTES
                                                            \o <<RulePromoOn>>))]

PatchMatch == [NoPatch EXCEPT !.present = {"enabled", "match"}, !.enabled = "false",
                              !.match = MatchRule(PathUnset, ListOf(<<"RU">>), ListUnset, "unset")]

WriteTraffic ==
  {AdminRequest("PUT", <<"api", "routes">>, CredGood, NoIfMatch, RoutesBody(ArrayOf(RoutesPromo))),
   AdminRequest("PUT", <<"api", "flags">>, CredGood, NoIfMatch, FlagsBodyOf(ObjectOf(FlagsLocked))),
   AdminRequest("POST", <<"api", "import">>, CredGood, NoIfMatch,
                Body(ArrayOf(<<RulePromo>>), ObjectOf(FlagsLocked), NoPatch))}
  \cup {AdminRequest("PATCH", <<"api", "routes", id>>, CredGood, NoIfMatch, PatchBodyOf(patch)) :
          id \in {DefaultId, "rule-promo", "rule-none"}, patch \in {PatchDisable, PatchMatch}}
  \cup {AdminRequest("DELETE", <<"api", "routes", id>>, CredGood, NoIfMatch, NoBody) :
          id \in {DefaultId, "rule-promo", "rule-none"}}

WriteInit ==
  /\ RtIdle
  /\ kv \in {DefaultStore(0), LockedStore(0), TwiceStore(0)}
  /\ ProcInit

WriteStep(r) ==
  \/ AfterInit(r)
  \/ \E k \in Keys : LoadRead(r, k)
  \/ Install(r)
  \/ Fetch(r)
  \/ PutBody(r)
  \/ Put(r)
  \/ PatchBody(r)
  \/ Patch(r)
  \/ Delete(r)
  \/ FlagsBody(r)
  \/ FlagsPut(r)
  \/ ImportBody(r)
  \/ Import(r)
  \/ WriteRoutes(r)
  \/ WriteFlags(r)
  \/ WriteMetadata(r)
  \/ Reloaded(r)
  \/ Audit(r)
  \/ Finish(r)

WriteNext ==
  \/ \E request \in WriteTraffic : Start(1, request)
  \/ BootGetMetadata
  \/ BootErrorAudit
  \/ WriteStep(1)
  \/ Elapse

SpecWrite == WriteInit /\ [][WriteNext]_vars

(***************************************************************************)
(* An import beside a runtime request in one process: the store holds the  *)
(* defaults, context 1 handles POST /api/import (new routes, new flags),   *)
(* context 2 handles GET requests, and the two interleave at every await.  *)
(***************************************************************************)
MixImport ==
  AdminRequest("POST", <<"api", "import">>, CredGood, NoIfMatch,
               Body(ArrayOf(RoutesPromo), ObjectOf(FlagsLocked), NoPatch))

MixGet == RuntimeRequest("GET", <<"casino", "spins100">>, {"iphone"}, "RU", FALSE)

MixInit ==
  /\ RtIdle
  /\ kv = DefaultStore(0)
  /\ ProcInit

MixStart(r, request) == Receive(r, request, Cardinality(Slots))

MixStep(r) ==
  \/ AfterInit(r)
  \/ \E k \in Keys : LoadRead(r, k)
  \/ Install(r)
  \/ Fetch(r)
  \/ Runtime(r)
  \/ ImportBody(r)
  \/ Import(r)
  \/ WriteRoutes(r)
  \/ WriteFlags(r)
  \/ WriteMetadata(r)
  \/ Reloaded(r)
  \/ Audit(r)
  \/ Finish(r)

MixNext ==
  \/ MixStart(1, MixImport)
  \/ MixStart(2, MixGet)
  \/ BootGetMetadata
  \/ BootErrorAudit
  \/ \E r \in Slots : MixStep(r)

SpecMix == MixInit /\ [][MixNext]_vars

(***************************************************************************)
(* Two PATCH requests for two different rules beside each other in one     *)
(* process: the store holds rule-promo and the default rule, context 1     *)
(* patches the one, context 2 the other, interleaving at every await.      *)
(***************************************************************************)
PatchTraffic(r) ==
  IF r = 1
  THEN AdminRequest("PATCH", <<"api", "routes", "rule-promo">>, CredGood, NoIfMatch,
                    PatchBodyOf(PatchMatch))
  ELSE AdminRequest("PATCH", <<"api", "routes", DefaultId>>, CredGood, NoIfMatch,
                    PatchBodyOf(PatchDisable))

PatchInit ==
  /\ RtIdle
  /\ kv = LockedStore(0)
  /\ ProcInit

PatchStart(r) == Receive(r, PatchTraffic(r), Cardinality(Slots))

PatchStep(r) ==
  \/ AfterInit(r)
  \/ \E k \in Keys : LoadRead(r, k)
  \/ Install(r)
  \/ Fetch(r)
  \/ PatchBody(r)
  \/ Patch(r)
  \/ WriteRoutes(r)
  \/ WriteMetadata(r)
  \/ Reloaded(r)
  \/ Audit(r)
  \/ Finish(r)

PatchNext ==
  \/ \E r \in Slots : PatchStart(r)
  \/ BootGetMetadata
  \/ BootErrorAudit
  \/ \E r \in Slots : PatchStep(r)

SpecPatch == PatchInit /\ [][PatchNext]_vars

(***************************************************************************)
(* Concurrent reloads: runtime requests arrive in both contexts of a       *)
(* process whose store nobody writes to; their gets miss together (nothing *)
(* held yet, or the held bundle expired) and their loads interleave at     *)
(* every read.  The store may lack the routes and flags records.           *)
(***************************************************************************)
MetadataOnlyStore == [EmptyStore EXCEPT !["metadata"] = DefaultStore(0)["metadata"]]

ReloadStores == {DefaultStore(0), LockedStore(0), MetadataOnlyStore, FlagsStore(TtlFlags(0 - 1), 0)}

ReloadTraffic == {RuntimeRequest("GET", <<"casino", "spins100">>, {"iphone"}, "ru", FALSE)}

ReloadInit ==
  /\ RtIdle
  /\ kv \in ReloadStores
  /\ ProcInit

ReloadStart(r, request) == Receive(r, request, Cardinality(Slots))

ReloadStep(r) ==
  \/ AfterInit(r)
  \/ \E k \in Keys : LoadRead(r, k)
  \/ Install(r)
  \/ Fetch(r)
  \/ Runtime(r)
  \/ Finish(r)

ReloadNext ==
  \/ \E r \in Slots, request \in ReloadTraffic : ReloadStart(r, request)
  \/ BootGetMetadata
  \/ BootErrorAudit
  \/ \E r \in Slots : ReloadStep(r)
  \/ Elapse

SpecReload == ReloadInit /\ [][ReloadNext]_vars

(***************************************************************************)
(* Claims.                                                                 *)
(***************************************************************************)
\* A rule qualifies for a request when it is not disabled and each criterion it
\* carries holds of the request.
Qualifies(rule, pathname, country, device, isBot) ==
  LET m == rule.match
      patterns == IF m.path.kind = "undefined" THEN {} ELSE SeqToSet(m.path.val)
  IN /\ rule.enabled # "false"
     /\ patterns # {} =>
          \E p \in patterns : ~RegExpThrows(p) /\ StringMatch(pathname, p) # Null
     /\ (m.countries.defined /\ m.countries.val # <<>>) => country \in SeqToSet(m.countries.val)
     /\ (m.devices.defined /\ m.devices.val # <<>>) =>
          (device \in SeqToSet(m.devices.val) \/ "any" \in SeqToSet(m.devices.val))
     /\ m.bots = "true" => isBot
     /\ m.bots = "false" => ~isBot

RtQualifies(i) ==
  Qualifies(rtRoutes[i], rtRequest.pathname, toUpperCase(rtRequest.cfCountry),
            detectDevice(rtRequest.ua),
            isBotAgent(rtRequest.ua, DEFAULT_FLAGS, rtRequest.cfBot))

RtFirst ==
  IF \E i \in 1..Len(rtRoutes) : RtQualifies(i)
  THEN CHOOSE i \in 1..Len(rtRoutes) :
         RtQualifies(i) /\ \A j \in 1..(i - 1) : ~RtQualifies(j)
  ELSE 0

\* C1: the runtime handler executes the action of the first rule in array
\* order that is not disabled and whose every present criterion holds; the
\* rules after it play no part in the response; with no such rule the request
\* is passed through to the origin.
C1_FirstMatchWins ==
  rtResult # NoResult =>
    /\ rtResult.idx = RtFirst
    /\ RtFirst = 0 => rtResult.response = OriginResponse
    /\ RtFirst > 0 =>
         /\ rtResult.response.kind # "origin"
         /\ rtResult =
              handleRuntimeRequest([routes |-> SubSeq(rtRoutes, 1, RtFirst),
                                    flags |-> DEFAULT_FLAGS], rtRequest)
         /\ rtResult.response =
              executeRoute([matched |-> TRUE, route |-> rtRoutes[RtFirst],
                            pathMatch |-> pathsSome(ensureArray(rtRoutes[RtFirst].match.path).items,
                                                    rtRequest.pathname).pathMatch],
                           rtRequest, toUpperCase(rtRequest.cfCountry),
                           detectDevice(rtRequest.ua))

\* C1 witness: a disabled rule whose criteria hold of the request is skipped and
\* the rule after it, which qualifies, is the one executed.
C1_Witness ==
  /\ rtResult # NoResult
  /\ Len(rtRoutes) = 2
  /\ rtRoutes[1].enabled = "false"
  /\ Qualifies([rtRoutes[1] EXCEPT !.enabled = "true"], rtRequest.pathname,
               toUpperCase(rtRequest.cfCountry), detectDevice(rtRequest.ua),
               isBotAgent(rtRequest.ua, DEFAULT_FLAGS, rtRequest.cfBot))
  /\ rtRoutes[2].match.bots = "false"
  /\ rtResult.idx = 2
  /\ rtResult.response.kind = "redirect"

(***************************************************************************)
(* What the handling of a request has done, read off its trace.            *)
(***************************************************************************)
BootstrapEffects ==
  {"boot.put.routes", "boot.put.flags", "boot.put.metadata", "boot.audit", "boot.audit.error"}

\* The store reads of hydrateCache.
ReadEffects ==
  {"load.fetch", "load.runtime", "load.read", "load.put", "load.patch", "load.delete",
   "load.flags_put", "load.import", "fail.get"}

WriteEffects ==
  {"put.routes", "put.flags", "put.metadata", "invalidate", "audit", "audit.failed"}

Failures ==
  {"fail.get", "fail.list", "fail.put.routes", "fail.put.flags", "fail.put.metadata",
   "throw.validation", "audit.failed"}

IsWriteEffect(x) == x \in WriteEffects

\* The writes, the invalidation and the audit put of the admin handler of r.
HandlerEffects(r) == SelectSeq(trace[r], IsWriteEffect)

Mutations == {"routes.put", "routes.patch", "routes.delete", "flags.put", "import"}

\* The audit entries written for request r.
EntriesOf(r) == {e \in audit : e.text.json.serial = loc[r].serial}

(***************************************************************************)
(* C2.                                                                     *)
(***************************************************************************)
\* C2: a PUT /api/routes whose If-Match value differs from the etag of the
\* current bundle is answered 412, and neither that step nor any earlier step
\* of the handler writes the stored routes, the stored metadata or the audit
\* log.
C2_StaleIfMatchRejected ==
  /\ [][\A r \in Slots :
          (/\ pc[r] = "put"
           /\ pc'[r] # "put"
           /\ req[r].ifMatch # NoIfMatch
           /\ req[r].ifMatch # loc[r].result.etag)
          => /\ pc'[r] = "done"
             /\ resp'[r].status = 412
             /\ UNCHANGED <<kv, audit>>]_vars
  /\ [](\A r \in Slots :
          \/ (loc[r].action = "routes.put" /\ pc[r] \in {"put_body", "put"})
          \/ (loc[r].action = "routes.put" /\ pc[r] \in {"load", "install"} /\ loc[r].ret = "put")
          \/ resp[r].status = 412
          => HandlerEffects(r) = <<>>)

\* C2 witness: the store holds the imported routes, a PUT carrying the etag of
\* the defaults has been answered 412, and the store and the audit log are as
\* they were.
C2_Witness ==
  /\ pc[1] = "done"
  /\ resp[1].status = 412
  /\ req[1].ifMatch = EtagOfDefaults
  /\ kv = LockedStore(0)
  /\ audit = {}

(***************************************************************************)
(* C3.                                                                     *)
(***************************************************************************)
\* C3: of two PUT /api/routes that both carry the etag of the same bundle, at
\* most one writes the routes; the other is refused as a conflict.
C3_AtMostOneSucceeds ==
  ~(\E r1, r2 \in Slots :
      /\ r1 # r2
      /\ req[r1].ifMatch # NoIfMatch
      /\ req[r1].ifMatch = req[r2].ifMatch
      /\ \A r \in {r1, r2} :
           /\ loc[r].action = "routes.put"
           /\ pc[r] = "done"
           /\ resp[r].status = 200
           /\ Includes(trace[r], "put.routes"))

(***************************************************************************)
(* C4.                                                                     *)
(***************************************************************************)
\* C4: a PUT /api/routes writes the stored routes only when it carries an
\* If-Match header; a PUT without the header leaves the stored routes alone.
C4_PutRequiresIfMatch ==
  \A r \in Slots :
    (loc[r].action = "routes.put" /\ Includes(trace[r], "put.routes"))
    => req[r].ifMatch # NoIfMatch

(***************************************************************************)
(* C5.                                                                     *)
(***************************************************************************)
\* The token a request presents: that of its Bearer header, else that of its
\* token query parameter.
Presented(request) ==
  IF request.authorization.scheme = "Bearer" THEN request.authorization.value
  ELSE request.queryToken

TokenOk(request) == Presented(request) = ADMIN_TOKEN

\* The caller's address: CF-Connecting-IP, else X-Forwarded-For.
CallerIp(request) ==
  IF request.cfConnectingIp # "" THEN request.cfConnectingIp ELSE request.xForwardedFor

IpOk(request, flags) ==
  \/ flags.allowedAdminIps = <<>>
  \/ \E i \in DOMAIN flags.allowedAdminIps : flags.allowedAdminIps[i] = trim(CallerIp(request))

ForAdmin(request) == request.pathname = <<"admin">> \/ Head(request.pathname) = "api"

\* C5: a request to /admin or /api/* whose token is not ADMIN_TOKEN is answered
\* 401; one whose token is right but whose address is not on a non-empty
\* flags.allowedAdminIps is answered 403; in both cases no handler is
\* dispatched and nothing is written; every other request to these paths is
\* served.
C5_AdminRequiresTokenAndIp ==
  /\ [][\A r \in Slots :
          (pc[r] = "fetch" /\ pc'[r] # "fetch" /\ ForAdmin(req[r]))
          => LET flags == loc[r].result.flags
                 refused == /\ pc'[r] = "done"
                            /\ loc'[r].action = ""
                            /\ UNCHANGED <<kv, audit, cachedConfig>>
             IN /\ ~TokenOk(req[r]) => (resp'[r].status = 401 /\ refused)
                /\ (TokenOk(req[r]) /\ ~IpOk(req[r], flags)) => (resp'[r].status = 403 /\ refused)
                /\ (TokenOk(req[r]) /\ IpOk(req[r], flags)) => resp'[r].status \notin {401, 403}]_vars
  /\ [](\A r \in Slots :
          resp[r].status \in {401, 403}
          => (pc[r] = "done" /\ loc[r].action = "" /\ HandlerEffects(r) = <<>>))

\* C5 witness: the store holds an allow list, and a PUT with the right token
\* from an address that is not on it has been answered 403.
C5_Witness ==
  /\ pc[1] = "done"
  /\ resp[1].status = 403
  /\ req[1].method = "PUT"
  /\ TokenOk(req[1])
  /\ CallerIp(req[1]) = "10.0.0.2"

(***************************************************************************)
(* C6.                                                                     *)
(***************************************************************************)
\* A request to /admin or /api/* that authorize refuses.
FailsAuthorization(r) ==
  /\ pc[r] # "idle"
  /\ ForAdmin(req[r])
  /\ ~TokenOk(req[r]) \/ resp[r].status = 403

\* C6: as amended.  During the handling of an admin request that fails
\* authorization the admin handlers write nothing; the only writes to the
\* configuration store and to the audit log are those of the bootstrap attempt
\* that fetch runs before authorization: the defaults and the bootstrap entry
\* when the store has no metadata record, the error entry when the attempt
\* throws.
C6_RejectedWritesOnlyBootstrap ==
  \A r \in Slots :
    FailsAuthorization(r)
    => \A i \in DOMAIN trace[r] : trace[r][i] \in BootstrapEffects \cup ReadEffects

\* C6 witness: a request with a wrong token has been answered 401 after the
\* bootstrap it triggered wrote the defaults and its audit entry.
C6_Witness ==
  /\ pc[1] = "done"
  /\ resp[1].status = 401
  /\ Includes(trace[1], "boot.put.routes")
  /\ Includes(trace[1], "boot.audit")
  /\ audit # {}

\* C6 as stated: during the handling of an admin request that fails
\* authorization nothing is written to the configuration store or to the audit
\* log, whatever the store holds.
C6_RejectedBeforeAnyWrite ==
  \A r \in Slots :
    FailsAuthorization(r)
    => \A i \in DOMAIN trace[r] : trace[r][i] \in ReadEffects

(***************************************************************************)
(* C7.                                                                     *)
(***************************************************************************)
WellFormedRule(rule) ==
  /\ rule.isObject
  /\ "id" \in rule.present /\ rule.id # ""
  /\ "match" \in rule.present
  /\ "action" \in rule.present
  /\ rule.action.type = "redirect" => rule.action.target # ""

WellFormed(routes) ==
  /\ routes.isArray
  /\ \A i \in DOMAIN routes.items : WellFormedRule(routes.items[i])

\* The routes a PATCH of request r would store.
Patched(r) ==
  LET routes == loc[r].result.routes
      i == findIndex(routes, Last(req[r].pathname))
  IN [present |-> i > 0,
      routes |-> IF i > 0 THEN ArrayOf([routes EXCEPT ![i] = spread(routes[i], req[r].body.patch)])
                 ELSE NotArray]

\* C7: a routes PUT or an import whose routes payload is not well formed, and
\* a PATCH whose patched routes are not well formed, ends with an error and
\* performs no store write, no metadata update and no cache invalidation.
C7_InvalidPayloadWritesNothing ==
  /\ [](\A r \in Slots :
          (/\ loc[r].action \in {"routes.put", "import"}
           /\ req[r].body.kind = "json"
           /\ ~WellFormed(req[r].body.routes))
          => /\ HandlerEffects(r) = <<>>
             /\ pc[r] \in {"put_body", "import_body", "done"}
             /\ pc[r] = "done" => resp[r].kind = "exception")
  /\ [](\A r \in Slots :
          \/ (loc[r].action = "routes.patch" /\ pc[r] \in {"patch_body", "patch"})
          \/ (loc[r].action = "routes.patch" /\ pc[r] \in {"load", "install"} /\ loc[r].ret = "patch")
          => HandlerEffects(r) = <<>>)
  /\ [][\A r \in Slots :
          (/\ pc[r] = "patch"
           /\ pc'[r] # "patch"
           /\ Patched(r).present
           /\ ~WellFormed(Patched(r).routes))
          => /\ pc'[r] = "done"
             /\ resp'[r].kind = "exception"
             /\ HandlerEffects(r)' = <<>>
             /\ UNCHANGED <<kv, audit, cachedConfig>>]_vars

\* C7 witness: a PATCH that empties the target of a stored redirect rule has
\* ended with the validation error, after the forced reload.
C7_Witness ==
  /\ pc[1] = "done"
  /\ loc[1].action = "routes.patch"
  /\ req[1].body.patch = PatchNoTarget
  /\ resp[1] = ExceptionResponse("action.target is required")
  /\ Includes(trace[1], "load.patch")

(***************************************************************************)
(* C8.                                                                     *)
(***************************************************************************)
IsMutationStep(x) == x \in WriteEffects \cup Failures \cup {"load.reloaded"}

\* The steps of the mutation of request r, after the read of the current bundle.
MutationSteps(r) == SelectSeq(trace[r], IsMutationStep)

OrderOf(op) ==
  CASE op = "import" ->
         <<"put.routes", "put.flags", "put.metadata", "invalidate", "load.reloaded", "audit">>
    [] op = "flags.put" ->
         <<"put.flags", "put.metadata", "invalidate", "load.reloaded", "audit">>
    [] OTHER ->
         <<"put.routes", "put.metadata", "invalidate", "load.reloaded", "audit">>

\* The mutation of request r has returned its result and none of its store
\* operations has thrown.
Succeeded(r) ==
  /\ loc[r].action \in Mutations
  /\ pc[r] = "done"
  /\ resp[r].status = 200
  /\ \A i \in DOMAIN trace[r] : trace[r][i] \notin Failures

C9_FailedAttemptAudited ==
  \A r \in Slots :
    /\ (/\ loc[r].action \in Mutations
        /\ pc[r] = "done"
        /\ \E i \in DOMAIN trace[r] :
             trace[r][i] \in {"fail.put.routes", "fail.put.flags", "fail.put.metadata"})
       => \E e \in EntriesOf(r) : e.text.json.error # ""
    /\ (pc[r] = "done" /\ resp[r] = ExceptionResponse("bootstrap"))
       => \E e \in audit : e.text.json.action = "config.bootstrap.error"

(***************************************************************************)
(* C10.                                                                    *)
(***************************************************************************)
AuditKeys == {e.key : e \in audit}

\* C10: every step leaves the records of the audit log in place, and a record
\* it adds is under a key no earlier record has; no two records share a key.
C10_AuditAppendOnly ==
  /\ [][/\ audit \subseteq audit'
        /\ \A e \in audit' \ audit : e.key \notin AuditKeys]_vars
  /\ [](Cardinality(AuditKeys) = Cardinality(audit))

\* C10 witness: the log holds two records written at the same timestamp.
C10_Witness ==
  \E e, f \in audit : e # f /\ e.key[2] = f.key[2] /\ e.key # f.key

(***************************************************************************)
(* C11.                                                                    *)
(***************************************************************************)
Count(seq, x) == Cardinality({i \in 1..Len(seq) : seq[i] = x})

ActionsLogged(action) == {e \in audit : e.text.json.action = action}

\* C11: a request that calls ensureConfigInitialized while an attempt is in
\* flight awaits that attempt and starts none of its own; the attempt in
\* flight is the only one, every awaiting caller awaits it, it performs each
\* default put and the put of its audit entry at most once, and the log never
\* holds more than one config.bootstrap entry.
C11_SingleFlight ==
  /\ [][\A r \in Slots :
          (pc[r] = "idle" /\ pc'[r] = "await_init" /\ initPromise)
          => (initPromise' /\ boot' = boot /\ trace' = trace /\ UNCHANGED <<kv, audit>>)]_vars
  /\ [](/\ initPromise <=> boot.pc # "idle"
        /\ \A r \in Slots :
             pc[r] = "await_init" =>
               /\ initPromise
               /\ boot.owner \in Slots
               /\ pc[boot.owner] = "await_init"
               /\ r # boot.owner => trace[r] = <<>>
        /\ boot.pc # "idle" =>
             \A x \in BootstrapEffects : Count(trace[boot.owner], x) <= 1
        /\ Cardinality(ActionsLogged("config.bootstrap")) <= 1)

\* C11 witness: two requests await the same attempt, which has written the
\* three defaults and is putting its audit entry; the second has done nothing.
C11_Witness ==
  /\ pc[1] = "await_init"
  /\ pc[2] = "await_init"
  /\ boot.owner = 1
  /\ boot.pc = "audit"
  /\ Len(trace[1]) = 3
  /\ trace[2] = <<>>

(***************************************************************************)
(* C12.                                                                    *)
(***************************************************************************)
\* C12: when the metadata read or a default put of a bootstrap attempt throws,
\* the attempt puts one config.bootstrap.error entry carrying the error text,
\* and only when that put has settled is the failure re-thrown to every caller
\* that awaits the attempt: each of them ends with the error, none resumes as
\* after a success.  The entry is in the log unless its own put threw
\* (writeAudit swallows that).
C12_BootstrapFailureAudited ==
  /\ [][(boot.pc \in {"get", "puts"} /\ boot' # boot /\ fails' # fails)
        => /\ boot'.pc = "err_audit"
           /\ boot'.pendingAudit.text.json.action = "config.bootstrap.error"
           /\ boot'.pendingAudit.text.json.error # ""
           /\ boot'.pendingAudit.key \notin {e.key : e \in audit}
           /\ pc' = pc
           /\ audit' = audit]_vars
  /\ [][(boot.pc = "err_audit" /\ boot' # boot)
        => /\ \/ audit' = audit \cup {boot.pendingAudit}
              \/ audit' = audit /\ fails' = fails + 1
           /\ \A r \in Slots :
                IF pc[r] = "await_init"
                THEN pc'[r] = "done" /\ resp'[r].kind = "exception"
                ELSE pc'[r] = pc[r] /\ resp'[r] = resp[r]]_vars
  /\ [](/\ \A r \in Slots :
             Includes(trace[r], "boot.audit.error") =>
               /\ pc[r] = "done"
               /\ resp[r].kind = "exception"
               /\ ActionsLogged("config.bootstrap.error") # {}
        /\ Cardinality(ActionsLogged("config.bootstrap.error")) <= fails
        /\ \A e \in ActionsLogged("config.bootstrap.error") : e.text.json.error # "")

\* C12 witness: the put of the default flags or metadata threw after the
\* routes had been written; both awaiting requests ended with the error and
\* the log holds the config.bootstrap.error entry.
C12_Witness ==
  /\ \A r \in Slots : pc[r] = "done" /\ resp[r].kind = "exception"
  /\ kv["routes"].has
  /\ ~kv["metadata"].has
  /\ Cardinality(ActionsLogged("config.bootstrap.error")) = 1
  /\ ActionsLogged("config.bootstrap") = {}

(***************************************************************************)
(* C13.                                                                    *)
(***************************************************************************)
\* C13 as stated: while the store holds a metadata record (here with the
\* imported routes, which no bootstrap writes), bootstrap leaves the store as
\* it is and the log empty.
C13_NoWriteNoAuditWithMetadata ==
  kv["routes"] = LockedStore(0)["routes"] => (kv = LockedStore(0) /\ audit = {})

\* C13 amended: an attempt whose metadata read returns a record ends there,
\* with the store, the log and the puts in flight as they were; an attempt
\* whose metadata read throws writes nothing to the store and issues only
\* the config.bootstrap.error entry.  A store that holds the import keeps
\* its routes, flags and metadata through every request and restart, and the
\* log never receives a config.bootstrap entry.
C13_BootstrapNoOpWithMetadata ==
  /\ [][(boot.pc = "get" /\ boot' # boot /\ kv["metadata"].has)
        => /\ kv' = kv
           /\ audit' = audit
           /\ detached' = detached
           /\ \/ boot' = NoBoot /\ fails' = fails /\ ~initPromise'
              \/ boot'.pc = "err_audit" /\ fails' = fails + 1]_vars
  /\ [](kv["routes"] = LockedStore(0)["routes"] =>
          /\ kv = LockedStore(0)
          /\ ActionsLogged("config.bootstrap") = {}
          /\ boot.pc \in {"idle", "get", "err_audit"}
          /\ audit = ActionsLogged("config.bootstrap.error"))

\* C13 witness: the store holds the import, two requests have been received
\* (the process may have been restarted between them), the second has been
\* answered, and the store and the log are untouched.
C13_Witness ==
  /\ kv = LockedStore(0)
  /\ starts = 2
  /\ pc[1] = "done"
  /\ resp[1].kind # "exception"
  /\ pc[2] = "idle"
  /\ audit = {}

(***************************************************************************)
(* C14.                                                                    *)
(***************************************************************************)
HoldsDefaults ==
  /\ kv["routes"] = Stored(JSONstringify(DEFAULT_ROUTES))
  /\ kv["flags"] = Stored(JSONstringify(DEFAULT_FLAGS))
  /\ kv["metadata"].has
  /\ JSONparse(kv["metadata"].text).updatedBy = "bootstrap"

BootPutLabels == {"boot.put.routes", "boot.put.flags", "boot.put.metadata"}

\* C14: an attempt whose metadata read finds no record issues the puts of the
\* default routes, the default flags and a metadata record; it issues the
\* config.bootstrap entry only when the three puts have completed, one entry,
\* and resolves only when the put of that entry has settled; a request
\* leaves its await of the attempt only at the step that settles it, and
\* everything its handling does comes after everything the attempt did.
C14_BootstrapThenAuditThenRequest ==
  /\ [][(boot.pc = "get" /\ boot' # boot /\ ~kv["metadata"].has /\ fails' = fails)
        => (boot'.pc = "puts" /\ boot'.pending = Keys /\ kv' = kv /\ audit' = audit /\ pc' = pc)]_vars
  /\ [][(boot.pc = "audit" /\ boot' # boot)
        => /\ HoldsDefaults
           /\ boot.pendingAudit.text.json.action = "config.bootstrap"
           /\ \/ audit' = audit \cup {boot.pendingAudit}
              \/ audit' = audit /\ fails' = fails + 1
           /\ cachedConfig'.isNull
           /\ boot' = NoBoot]_vars
  /\ [][\A r \in Slots :
          (pc[r] = "await_init" /\ pc'[r] # "await_init")
          => (boot.pc \in {"get", "audit", "err_audit"} /\ boot' = NoBoot /\ ~initPromise')]_vars
  /\ [](/\ boot.pc = "audit" =>
             /\ \A x \in BootPutLabels : Count(trace[boot.owner], x) = 1
             /\ ~Includes(trace[boot.owner], "boot.audit")
        /\ \A r \in Slots :
             /\ pc[r] = "await_init" => \A i \in 1..Len(trace[r]) : trace[r][i] \in BootstrapEffects
             /\ \A i, j \in 1..Len(trace[r]) :
                  (i < j /\ trace[r][j] \in BootstrapEffects) => trace[r][i] \in BootstrapEffects
             /\ Includes(trace[r], "boot.audit") =>
                  /\ Len(trace[r]) >= 4
                  /\ {trace[r][i] : i \in 1..3} = BootPutLabels
                  /\ trace[r][4] = "boot.audit"
                  /\ Cardinality(ActionsLogged("config.bootstrap")) = 1)

\* C14 witness: a request that arrived at an empty store has been answered
\* after the three default puts, the config.bootstrap entry and its own load.
C14_Witness ==
  /\ pc[1] = "done"
  /\ resp[1].kind \notin {"exception", "none"}
  /\ Len(trace[1]) = 5
  /\ trace[1][4] = "boot.audit"
  /\ trace[1][5] = "load.fetch"
  /\ kv = DefaultStore(0)
  /\ Cardinality(ActionsLogged("config.bootstrap")) = 1

(***************************************************************************)
(* C15.                                                                    *)
(***************************************************************************)
IsRuntimeGet(request) ==
  /\ request.method = "GET"
  /\ request.pathname # <<"admin">>
  /\ ~(Len(request.pathname) >= 1 /\ request.pathname[1] = "api")

\* The steps in which context r calls hydrateCache(env): line 1299 of fetch
\* and line 1274 of handleRuntimeRequest; AfterGet is where it continues.
GetStep(r) ==
  \/ pc[r] = "init_ok" /\ pc'[r] # "init_ok"
  \/ pc[r] = "fetch" /\ pc'[r] # "fetch" /\ IsRuntimeGet(req[r])

AfterGet(r) == IF pc[r] = "init_ok" THEN "fetch" ELSE "runtime"

\* C15: a get issued while a bundle is held and now < expiresAt returns the
\* held bundle with no store read; any other get issues one read of each of
\* routes, flags and metadata, each read completes once, and the bundle built
\* from them at the time of the install replaces the held one; one get never
\* reloads twice.
C15_GetHitOrOneReload ==
  /\ [][\A r \in Slots :
          GetStep(r) =>
            IF ~cachedConfig.isNull /\ now < cachedConfig.expiresAt
            THEN /\ pc'[r] = AfterGet(r)
                 /\ loc'[r].result = cachedConfig
                 /\ loc'[r].pendingReads = {}
                 /\ UNCHANGED <<cachedConfig, trace, fails, kv>>
            ELSE /\ pc'[r] = "load"
                 /\ loc'[r].pendingReads = Keys
                 /\ loc'[r].ret = AfterGet(r)
                 /\ UNCHANGED <<cachedConfig, kv>>]_vars
  /\ [][\A r \in Slots :
          (pc[r] = "load" /\ loc'[r] # loc[r] /\ fails' = fails)
          => \E k \in loc[r].pendingReads :
               /\ loc'[r].pendingReads = loc[r].pendingReads \ {k}
               /\ pc'[r] = IF loc[r].pendingReads = {k} THEN "install" ELSE "load"]_vars
  /\ [][\A r \in Slots :
          (pc[r] = "install" /\ pc'[r] # "install")
          => /\ pc'[r] = loc[r].ret
             /\ ~cachedConfig'.isNull
             /\ cachedConfig'.loadedAt = now
             /\ cachedConfig'.routes = JSONparse(kv["routes"].text)
             /\ cachedConfig'.flags = JSONparse(kv["flags"].text)
             /\ loc'[r].result = cachedConfig'
             /\ trace'[r] = Append(trace[r], "load." \o loc[r].ret)]_vars
  /\ [](\A r \in Slots :
          Count(trace[r], "load.fetch") <= 1 /\ Count(trace[r], "load.runtime") <= 1)

\* C15 witness: a request's get found the held bundle expired (now is at or
\* past its expiresAt) and its reload is under way, one read still pending.
C15_Witness ==
  /\ pc[1] = "load"
  /\ loc[1].ret = "fetch"
  /\ ~cachedConfig.isNull
  /\ cachedConfig.expiresAt <= now
  /\ Cardinality(loc[1].pendingReads) = 1

(***************************************************************************)
(* C16.                                                                    *)
(***************************************************************************)
\* max(flags.cacheTtlMs, 5000), a missing value counting as below the floor.
StatedTtl(flags) ==
  IF "cacheTtlMs" \in DOMAIN flags /\ flags.cacheTtlMs > MIN_TTL THEN flags.cacheTtlMs ELSE MIN_TTL

\* The TTL in force: 60000 for a value that is 0 or missing, else the value,
\* raised to the floor.
EffectiveTtl(flags) ==
  CASE "cacheTtlMs" \notin DOMAIN flags -> 60000
    [] flags.cacheTtlMs = 0 -> 60000
    [] flags.cacheTtlMs < MIN_TTL -> MIN_TTL
    [] OTHER -> flags.cacheTtlMs

\* C16 as stated: the held bundle has expiresAt = load time +
\* max(flags.cacheTtlMs, 5000), whatever the stored cacheTtlMs.
C16_ExpiresAtIsMaxOfTtlAndFloor ==
  ~cachedConfig.isNull =>
    cachedConfig.expiresAt = cachedConfig.loadedAt + StatedTtl(cachedConfig.flags)

\* C16 amended: every bundle installed by a load has expiresAt = load time +
\* max(t, 5000), where t is the stored cacheTtlMs, or 60000 when the stored
\* value is 0 or missing; the TTL in force is never below 5000.
C16_ExpiresAtIsClampedTtl ==
  /\ [][\A r \in Slots :
          (pc[r] = "install" /\ pc'[r] # "install")
          => /\ cachedConfig'.flags = JSONparse(kv["flags"].text)
             /\ cachedConfig'.loadedAt = now
             /\ cachedConfig'.expiresAt = now + EffectiveTtl(cachedConfig'.flags)]_vars
  /\ [](~cachedConfig.isNull =>
          /\ cachedConfig.expiresAt = cachedConfig.loadedAt + EffectiveTtl(cachedConfig.flags)
          /\ cachedConfig.expiresAt - cachedConfig.loadedAt >= MIN_TTL)

\* C16 witness: a bundle loaded at 5000 from flags whose cacheTtlMs is
\* negative expires at 10000.
C16_Witness ==
  /\ ~cachedConfig.isNull
  /\ "cacheTtlMs" \in DOMAIN cachedConfig.flags
  /\ cachedConfig.flags.cacheTtlMs < 0
  /\ cachedConfig.loadedAt = MIN_TTL
  /\ cachedConfig.expiresAt = 2 * MIN_TTL

(***************************************************************************)
(* C17.                                                                    *)
(***************************************************************************)
\* The bundles the process holds: the cached one and those the handlers keep
\* (the bundle read before a mutation and the one reloaded after it).
Holders == {<<"cache", 0>>} \cup ({"result", "current"} \X Slots)

BundleOf(h) ==
  CASE h[1] = "cache" -> cachedConfig
    [] h[1] = "result" -> loc[h[2]].result
    [] OTHER -> loc[h[2]].current

\* C17: two bundles with the same routes, flags and metadata.version carry
\* the same etag, whatever their loadedAt, expiresAt, metadata.updatedAt and
\* metadata.updatedBy.
C17_EtagOfContentOnly ==
  \A g, h \in Holders :
    LET a == BundleOf(g)
        b == BundleOf(h)
    IN (/\ ~a.isNull
        /\ ~b.isNull
        /\ a.routes = b.routes
        /\ a.flags = b.flags
        /\ a.metadata.version = b.metadata.version)
       => a.etag = b.etag

\* C17 witness: a flags PUT that stored the flags the store already held; the
\* bundle read before it and the bundle reloaded after it differ in loadedAt,
\* expiresAt and metadata.updatedAt and carry the same etag.
C17_Witness ==
  /\ pc[1] = "reloaded"
  /\ ~loc[1].current.isNull
  /\ ~loc[1].result.isNull
  /\ loc[1].current.routes = loc[1].result.routes
  /\ loc[1].current.flags = loc[1].result.flags
  /\ loc[1].current.loadedAt # loc[1].result.loadedAt
  /\ loc[1].current.expiresAt # loc[1].result.expiresAt
  /\ loc[1].current.metadata.updatedAt # loc[1].result.metadata.updatedAt
  /\ loc[1].current.etag = loc[1].result.etag

(***************************************************************************)
(* C18.                                                                    *)
(***************************************************************************)
\* The step in which context r runs handleCacheInvalidate up to its await.
InvalidateStep(r) ==
  /\ pc[r] = "fetch"
  /\ pc'[r] = "audit"
  /\ loc'[r].action = "cache.invalidate"

\* C18: the step that runs invalidateCache (POST /api/cache/invalidate) leaves
\* no bundle held; while none is held every get starts a store reload of the
\* three keys, whatever the clock says; and a bundle is held again only
\* through the install of such a reload, loaded at the time of the install.
C18_InvalidateForcesReload ==
  /\ [][\A r \in Slots : InvalidateStep(r) => cachedConfig'.isNull]_vars
  /\ [][\A r \in Slots :
          (GetStep(r) /\ cachedConfig.isNull)
          => /\ pc'[r] = "load"
             /\ loc'[r].pendingReads = Keys
             /\ cachedConfig'.isNull]_vars
  /\ [][(cachedConfig.isNull /\ ~cachedConfig'.isNull)
        => \E r \in Slots : pc[r] = "install" /\ cachedConfig'.loadedAt = now]_vars

\* C18 witness: a bundle was loaded at 0 (so it would expire at 5000 at the
\* earliest), POST /api/cache/invalidate dropped it, and the get of the next
\* request, still at time 0, is reading the store.
C18_Witness ==
  /\ starts = 2
  /\ now = 0
  /\ Cardinality(ActionsLogged("cache.invalidate")) = 1
  /\ IsRuntimeGet(req[1])
  /\ pc[1] = "load"
  /\ loc[1].ret = "fetch"
  /\ loc[1].pendingReads = Keys
  /\ cachedConfig.isNull

(***************************************************************************)
(* C19.                                                                    *)
(***************************************************************************)
\* Context r's reload ended on a store read that threw.
ReloadFailed(r) ==
  /\ pc[r] = "done"
  /\ Len(trace[r]) > 0
  /\ Last(trace[r]) = "fail.get"

\* C19: when the store read of a get's reload throws while a bundle loaded
\* earlier is held, the get returns that bundle and the request is answered
\* from it; the failure does not reach the caller.
C19_StaleBundleOnFailedReload ==
  \A r \in Slots :
    (ReloadFailed(r) /\ ~cachedConfig.isNull) => resp[r].kind # "exception"

(***************************************************************************)
(* C20.                                                                    *)
(***************************************************************************)
\* C20: a runtime GET request never fails with an error: when the store is
\* unreachable (a read of the bootstrap or of the load throws) or the
\* bootstrap of an empty store does not succeed, the request is passed
\* through to the origin.
C20_RuntimeGetPassesThrough ==
  \A r \in Slots :
    (pc[r] = "done" /\ IsRuntimeGet(req[r]) /\ cachedConfig.isNull)
    => resp[r].kind # "exception"

(***************************************************************************)
(* C21.                                                                    *)
(***************************************************************************)
\* The etag of what the store holds now.
StoreEtag == computeEtag(rawConfig(kv, now))

\* C21: while nobody writes to the store, every bundle a reload has built,
\* the held one and the ones the concurrent requests work with, carries the
\* etag of the store's contents; each install replaces the held bundle with
\* the one it built, so the last install decides the held bundle and its
\* etag is again that of the store.
C21_ConcurrentReloadsConverge ==
  /\ [](\A h \in Holders : ~BundleOf(h).isNull => BundleOf(h).etag = StoreEtag)
  /\ [][\A r \in Slots :
          (pc[r] = "install" /\ pc'[r] # "install")
          => /\ cachedConfig'.loadedAt = now
             /\ cachedConfig'.etag = StoreEtag
             /\ loc'[r].result.etag = cachedConfig'.etag]_vars

\* C21 witness: the store holds the defaults (TTL 60000); both requests
\* missed while nothing was held, one installed its bundle at 0, the other
\* replaced it at 5000, and the two bundles carry the same etag.
C21_Witness ==
  /\ kv = DefaultStore(0)
  /\ pc[1] = "fetch"
  /\ pc[2] = "fetch"
  /\ loc[1].result.loadedAt = 0
  /\ loc[2].result.loadedAt = MIN_TTL
  /\ cachedConfig.loadedAt = MIN_TTL
  /\ loc[1].result.etag = cachedConfig.etag

(***************************************************************************)
(* C22.                                                                    *)
(***************************************************************************)
\* A request to a path outside /admin and /api/ with a method other than GET.
IsRuntimeNonGet(request) ==
  /\ request.method \notin {"GET", ""}
  /\ ~IsAdminPath(request.pathname)
  /\ ~IsApiPath(request.pathname)

\* C22: a request whose method is not GET is answered by forwarding it to the
\* origin; no rule is matched against it and no action is applied.
C22_NonGetForwarded ==
  \A r \in Slots :
    (pc[r] = "done" /\ IsRuntimeNonGet(req[r])) => resp[r] = OriginResponse

(***************************************************************************)
(* C23.                                                                    *)
(***************************************************************************)
HasCountries(rule) == rule.match.countries.defined /\ Len(rule.match.countries.val) > 0

\* C23: for a request with no country value the rule that is executed, if
\* any, is not one with a non-empty countries list, whatever the list holds.
C23_NoCountryNeverMatchesCountries ==
  (rtResult # NoResult /\ rtRequest.cfCountry = "" /\ rtResult.idx > 0)
  => ~HasCountries(rtRoutes[rtResult.idx])

(***************************************************************************)
(* C30.                                                                    *)
(***************************************************************************)
\* The request's country is on the rule's list when letter case is ignored.
ListedIgnoringCase(rule, country) ==
  \E i \in 1..Len(rule.match.countries.val) :
    toUpperCase(rule.match.countries.val[i]) = toUpperCase(country)

\* C30: a rule that is first in the list, whose path criterion holds and
\* whose countries list names the request's country in any letter case, is
\* the rule executed.
C30_CountriesIgnoreCase ==
  (/\ rtResult # NoResult
   /\ Len(rtRoutes) > 0
   /\ rtRequest.cfCountry # ""
   /\ HasCountries(rtRoutes[1])
   /\ ListedIgnoringCase(rtRoutes[1], rtRequest.cfCountry)
   /\ matchRoute([rtRoutes[1] EXCEPT !.match.countries = ListUnset], rtRequest.pathname,
                 toUpperCase(rtRequest.cfCountry), detectDevice(rtRequest.ua), FALSE).matched)
  => rtResult.idx = 1

(***************************************************************************)
(* C24.                                                                    *)
(***************************************************************************)
RtIsBot == isBotAgent(rtRequest.ua, DEFAULT_FLAGS, rtRequest.cfBot)

\* The rule would match the request but for its bots criterion.
MatchesButForBots(rule) ==
  Qualifies([rule EXCEPT !.match.bots = "unset"], rtRequest.pathname,
            toUpperCase(rtRequest.cfCountry), detectDevice(rtRequest.ua), RtIsBot)

\* C24: the rule executed for a bot never has bots=false and the rule executed
\* for a client that is no bot never has bots=true; a first rule with bots
\* unset is executed exactly when its other criteria hold, bot or not; and a
\* bot's request is passed through to the origin when every rule of the list
\* has bots=false.
C24_BotsTriState ==
  rtResult # NoResult =>
    /\ rtResult.idx > 0 =>
         /\ rtRoutes[rtResult.idx].match.bots = "false" => ~RtIsBot
         /\ rtRoutes[rtResult.idx].match.bots = "true" => RtIsBot
    /\ (Len(rtRoutes) > 0 /\ rtRoutes[1].match.bots = "unset")
       => (rtResult.idx = 1 <=> MatchesButForBots(rtRoutes[1]))
    /\ (Len(rtRoutes) > 0 /\ rtRoutes[1].match.bots = "false" /\ ~RtIsBot)
       => (rtResult.idx = 1 <=> MatchesButForBots(rtRoutes[1]))
    /\ (Len(rtRoutes) > 0 /\ rtRoutes[1].match.bots = "true" /\ RtIsBot)
       => (rtResult.idx = 1 <=> MatchesButForBots(rtRoutes[1]))
    /\ (RtIsBot /\ \A i \in 1..Len(rtRoutes) : rtRoutes[i].match.bots = "false")
       => rtResult.response = OriginResponse

\* C24 witness: the only rule has bots=false and its path and country hold of
\* the request, which comes from Googlebot: it is passed to the origin.
C24_Witness ==
  /\ rtResult # NoResult
  /\ Len(rtRoutes) = 1
  /\ rtRoutes[1].match.bots = "false"
  /\ rtRoutes[1].match.path = PathString(PatCasino)
  /\ rtRoutes[1].match.countries = ListOf(<<"RU">>)
  /\ MatchesButForBots(rtRoutes[1])
  /\ "googlebot" \in rtRequest.ua
  /\ RtIsBot
  /\ rtResult.response = OriginResponse

(***************************************************************************)
(* C25.                                                                    *)
(***************************************************************************)
\* What the rule's path pattern captured from the request's path.
RtPathMatch(rule) == pathsSome(ensureArray(rule.match.path).items, rtRequest.pathname).pathMatch

\* The capture group n of the match: "" when absent.
Capture(pathMatch, n) == IF n + 1 <= Len(pathMatch) THEN pathMatch[n + 1] ELSE ""

\* The rule's redirect takes a parameter from a capture group that is absent
\* or empty for this request.
NeedsMissingSlug(rule) ==
  /\ rule.action.type = "redirect"
  /\ \E i \in 1..Len(rule.action.query) :
       /\ rule.action.query[i][2].kind = "fromPathGroup"
       /\ Capture(RtPathMatch(rule), rule.action.query[i][2].index) = ""

\* C25: when the rule that matches needs a slug captured from the path and
\* the capture is absent or empty, the request is passed through to the
\* origin and no redirect is issued.
C25_MissingSlugPassesThrough ==
  (rtResult # NoResult /\ rtResult.idx > 0 /\ NeedsMissingSlug(rtRoutes[rtResult.idx]))
  => rtResult.response = OriginResponse

(***************************************************************************)
(* C26.                                                                    *)
(***************************************************************************)
\* C26: every redirect response issued for a redirect action carries the
\* header Cache-Control: no-store.
C26_RedirectNoStore ==
  (rtResult # NoResult /\ rtResult.response.kind = "redirect")
  => <<"Cache-Control", "no-store">> \in rtResult.response.headers

(***************************************************************************)
(* C27.                                                                    *)
(***************************************************************************)
\* The rule has a path criterion and none of its patterns is a regular
\* expression.
OnlyInvalidPatterns(rule) ==
  /\ rule.match.path.kind # "undefined"
  /\ Len(rule.match.path.val) > 0
  /\ \A i \in 1..Len(rule.match.path.val) : RegExpThrows(rule.match.path.val[i])

CompilesSomewhere(rule) == ~OnlyInvalidPatterns(rule)

\* C27: a rule whose path pattern is not a regular expression is never the
\* rule executed, and the request is answered as if the list did not hold
\* such rules: the rules after it are evaluated and the first that
\* qualifies is applied.
C27_InvalidPatternSkipped ==
  rtResult # NoResult =>
    /\ rtResult.idx > 0 => ~OnlyInvalidPatterns(rtRoutes[rtResult.idx])
    /\ rtResult.response =
         handleRuntimeRequest([routes |-> SelectSeq(rtRoutes, CompilesSomewhere),
                               flags |-> DEFAULT_FLAGS], rtRequest).response
    /\ rtResult.idx = RtFirst

\* C27 witness: the first rule's only pattern does not compile, the second
\* rule qualifies and is the one executed.
C27_Witness ==
  /\ rtResult # NoResult
  /\ Len(rtRoutes) = 2
  /\ rtRoutes[1].match.path = PathString(PatBad)
  /\ rtRoutes[1].enabled # "false"
  /\ RtQualifies(2)
  /\ rtResult.idx = 2
  /\ rtResult.response.kind = "redirect"

(***************************************************************************)
(* C28.                                                                    *)
(***************************************************************************)
DistinctIds(routes) ==
  \A i, j \in 1..Len(routes) : routes[i].id = routes[j].id => i = j

\* C28: the route list the store holds, after any sequence of PUT, PATCH,
\* DELETE and import the admin API accepted, names no id twice.
C28_StoredIdsDistinct ==
  kv["routes"].has => DistinctIds(JSONparse(kv["routes"].text))

(***************************************************************************)
(* C29.                                                                    *)
(***************************************************************************)
\* The pairs the query projections set, in the order of the entries: capture
\* group n for fromPathGroup n (nothing when the group is absent or empty),
\* the value for a literal, the configured value otherwise.
RECURSIVE Projected(_, _)
Projected(entries, pathMatch) ==
  IF entries = <<>> THEN <<>>
  ELSE LET key == Head(entries)[1]
           value == Head(entries)[2]
           pair == IF value.kind = "fromPathGroup"
                   THEN IF Capture(pathMatch, value.index) = "" THEN <<>>
                        ELSE <<<<key, Capture(pathMatch, value.index)>>>>
                   ELSE <<<<key, value.value>>>>
       IN pair \o Projected(Tail(entries), pathMatch)

\* The target's own pairs followed by every pair the steps set, in the order
\* of the steps.
PairsInOrder(rule, request) ==
  rule.action.targetQuery
  \o (IF rule.action.preserveOriginalQuery THEN request.query ELSE <<>>)
  \o rule.action.extraQuery
  \o Projected(rule.action.query, RtPathMatch(rule))
  \o (IF rule.action.appendCountry THEN <<<<"country", toUpperCase(request.cfCountry)>>>> ELSE <<>>)
  \o (IF rule.action.appendDevice THEN <<<<"device", detectDevice(request.ua)>>>> ELSE <<>>)

FirstAt(pairs, key) ==
  CHOOSE i \in 1..Len(pairs) : pairs[i][1] = key /\ \A j \in 1..(i - 1) : pairs[j][1] # key

LastAt(pairs, key) ==
  CHOOSE i \in 1..Len(pairs) : pairs[i][1] = key /\ \A j \in (i + 1)..Len(pairs) : pairs[j][1] # key

\* C29: the query of a redirect holds each key that the target, the original
\* query (when preserved), extraQuery, the projections or country/device
\* name, once, with the value of the latest of these steps that sets it,
\* the keys standing in the order in which the steps first name them.
C29_QueryBuiltInOrder ==
  (rtResult # NoResult /\ rtResult.idx = 1 /\ rtRoutes[1].action.type = "redirect")
  => LET q == rtResult.response.location.query
         pairs == PairsInOrder(rtRoutes[1], rtRequest)
     IN /\ rtResult.response.kind = "redirect"
        /\ rtResult.response.location.base = rtRoutes[1].action.target
        /\ {q[i][1] : i \in 1..Len(q)} = {pairs[i][1] : i \in 1..Len(pairs)}
        /\ \A i, j \in 1..Len(q) : q[i][1] = q[j][1] => i = j
        /\ \A i \in 1..Len(q) : q[i][2] = pairs[LastAt(pairs, q[i][1])][2]
        /\ \A i, j \in 1..Len(q) :
             i < j => FirstAt(pairs, q[i][1]) < FirstAt(pairs, q[j][1])

\* C29 witness: src is named by the target, the original query, extraQuery
\* and a literal projection, bonus by the original query, extraQuery and
\* fromPathGroup 1; the redirect carries src=lit, bonus=spins100 and then
\* country and device.
C29_Witness ==
  /\ rtResult # NoResult
  /\ rtRequest.pathname = <<"casino", "spins100">>
  /\ rtRequest.query = <<<<"src", "organic">>, <<"bonus", "q">>>>
  /\ rtRoutes[1].action.targetQuery = <<<<"src", "target">>>>
  /\ rtRoutes[1].action.preserveOriginalQuery
  /\ rtRoutes[1].action.extraQuery = <<<<"src", "mobile-geo">>, <<"bonus", "extra">>>>
  /\ rtRoutes[1].action.query = <<<<"src", Literal("lit")>>, <<"bonus", FromPathGroup(1)>>>>
  /\ rtRoutes[1].action.appendCountry
  /\ rtResult.response.location.query =
       <<<<"src", "lit">>, <<"bonus", "spins100">>, <<"country", "RU">>, <<"device", "mobile">>>>

(***************************************************************************)
(* C31.  Device classification.                                            *)
(***************************************************************************)
\* The device handleRuntimeRequest classified the request as, read from the
\* device parameter a rule without criteria appends to its redirect.
RtDevice ==
  LET q == rtResult.response.location.query
  IN IF \E i \in 1..Len(q) : q[i][1] = "device"
     THEN (CHOOSE pair \in SeqToSet(q) : pair[1] = "device")[2]
     ELSE "none"

DeviceShown ==
  /\ rtResult # NoResult
  /\ Len(rtRoutes) >= 1
  /\ rtRoutes[1].match.bots = "unset"

LooksMobile(ua) == "iphone" \in ua \/ ("android" \in ua /\ "mobile" \in ua)

LooksTablet(ua) == "ipad" \in ua \/ "tablet" \in ua

\* C31: a Sec-CH-UA-Mobile hint asserting mobile classifies the request as
\* mobile and a hint asserting not-mobile classifies it as desktop, whatever
\* the user-agent looks like; with no hint the user-agent decides, a tablet
\* signal winning over a mobile signal.
C31_ClientHintPrecedence ==
  DeviceShown =>
    /\ rtRequest.chMobile = "?1" => RtDevice = "mobile"
    /\ rtRequest.chMobile = "?0" => RtDevice = "desktop"
    /\ rtRequest.chMobile = "" /\ LooksTablet(rtRequest.ua) => RtDevice # "mobile"
    /\ rtRequest.chMobile = "" /\ LooksMobile(rtRequest.ua) /\ ~LooksTablet(rtRequest.ua)
         => RtDevice = "mobile"

(***************************************************************************)
(* C32.  isBot.                                                            *)
(***************************************************************************)
\* isBot as the matcher saw it: a first rule with bots true is executed
\* exactly for a bot.
BotShown ==
  /\ rtResult # NoResult
  /\ Len(rtRoutes) >= 1
  /\ rtRoutes[1].match.bots = "true"

RtBot == rtResult.idx = 1

ContainsSignature(ua, signatures) ==
  \E i \in 1..Len(signatures) : toLowerCase(signatures[i]) \in ua

Listed(request, flags) ==
  ContainsSignature(request.ua, flags.yandexBots) \/ ContainsSignature(request.ua, flags.googleBots)

\* C32 as stated: a user-agent containing a signature of flags.yandexBots or
\* flags.googleBots, or an asserted platform bot signal, makes isBot true for
\* every value of the other flags.
C32_BotForEveryFlags ==
  BotShown /\ (Listed(rtRequest, cachedConfig.flags) \/ rtRequest.cfBot) => RtBot

\* C32 amended: isBot is true exactly when the platform bot signal is
\* asserted, or flags.strictBots is true and the user-agent contains a
\* signature of flags.yandexBots or flags.googleBots.
C32_BotWhenStrictOrSignalled ==
  BotShown =>
    (RtBot <=> (rtRequest.cfBot
                \/ (cachedConfig.flags.strictBots /\ Listed(rtRequest, cachedConfig.flags))))

\* A crawler's user-agent without the platform signal under strictBots, found
\* to be a bot through a configured list.
C32_Witness ==
  /\ BotShown
  /\ ~rtRequest.cfBot
  /\ cachedConfig.flags.strictBots
  /\ "custombot" \in rtRequest.ua
  /\ cachedConfig.flags.yandexBots = <<"custombot">>
  /\ RtBot

(***************************************************************************)
(* C33.  What the audit entry of a mutation records.                       *)
(***************************************************************************)
\* The handler of r has read the bundle it calls current and has issued no
\* write yet.
BeforeFirstWrite(r) ==
  /\ pc[r] \in {"w_routes", "w_flags"}
  /\ \A i \in 1..Len(trace[r]) : trace[r][i] \notin {"put.routes", "put.flags"}

\* The step in which the writeAudit put of a mutation of r completes.
AuditAppended(r) ==
  /\ pc[r] = "audit"
  /\ loc[r].action # "cache.invalidate"
  /\ audit' # audit

Appended == JSONparse((CHOOSE x \in audit' \ audit : TRUE).text)

ReturnsEtag(r) == loc[r].action # "flags.put"

\* C33: a mutation that runs alone appends an entry whose prevHash is the
\* etag of the bundle the handler read before its first write, which is the
\* etag of what the store held then; whose newHash is the etag of the bundle
\* the forced reload returned, which is the etag in the response and the
\* etag of what the store holds afterwards; and whose ts is the updatedAt of
\* the metadata record the mutation stored.
C33_AuditEntryHashes ==
  /\ [](\A r \in Slots : BeforeFirstWrite(r) => loc[r].current.etag = StoreEtag)
  /\ [][\A r \in Slots :
          (loc[r].current # NullBundle /\ pc'[r] # "idle")
          => loc'[r].current = loc[r].current]_vars
  /\ [][\A r \in Slots :
          AuditAppended(r)
          => /\ Appended.prevHash = loc[r].current.etag
             /\ Appended.newHash = loc[r].result.etag
             /\ Appended.newHash = StoreEtag'
             /\ Appended.newHash = cachedConfig'.etag
             /\ ReturnsEtag(r) => resp'[r].body = <<"ok", Appended.newHash>>
             /\ resp'[r].status = 200
             /\ Appended.ts = JSONparse(kv'["metadata"].text).updatedAt]_vars

\* C33 witness: a PUT of the routes on the defaults has been audited; the
\* entry's two hashes differ and its ts is later than the defaults' stamp
\* and earlier than the audit write.
C33_Witness ==
  /\ pc[1] = "done"
  /\ loc[1].action = "routes.put"
  /\ \E x \in audit :
       /\ JSONparse(x.text).prevHash = EtagOfDefaults
       /\ JSONparse(x.text).newHash = StoreEtag
       /\ JSONparse(x.text).newHash # EtagOfDefaults
       /\ JSONparse(x.text).ts = JSONparse(kv["metadata"].text).updatedAt
  /\ now > JSONparse(kv["metadata"].text).updatedAt

(***************************************************************************)
(* C34.  The cache after a mutation has returned.                          *)
(***************************************************************************)
\* The import of context r has returned success; nothing has written to the
\* store since its metadata put.
ImportReturned(r) ==
  /\ pc[r] = "done"
  /\ loc[r].action = "import"
  /\ resp[r].status = 200
  /\ kv = LockedStore(loc[r].metadata.updatedAt)

\* C34: once a mutation has returned success and nothing has written to the
\* store since, the held bundle, if there is one, is built from what the
\* store holds, never from what it held before the mutation.
C34_NoStaleBundleAfterMutation ==
  \A r \in Slots :
    ImportReturned(r) =>
      \/ cachedConfig.isNull
      \/ /\ cachedConfig.routes = JSONparse(kv["routes"].text)
         /\ cachedConfig.flags = JSONparse(kv["flags"].text)

(***************************************************************************)
(* C35.  No torn snapshot.                                                 *)
(***************************************************************************)
\* The routes and flags the store has held together: the defaults, the
\* imported routes with the default flags (between the two puts of the
\* import), the imported routes with the imported flags.
Snapshots ==
  {<<DEFAULT_ROUTES, DEFAULT_FLAGS>>, <<RoutesPromo, DEFAULT_FLAGS>>, <<RoutesPromo, FlagsLocked>>}

\* C35: the routes and the flags of the held bundle were in the store
\* together at some instant.
C35_NoTornSnapshot ==
  ~cachedConfig.isNull => <<cachedConfig.routes, cachedConfig.flags>> \in Snapshots

(***************************************************************************)
(* C36.  Metadata implies routes and flags.                                *)
(***************************************************************************)
\* No bootstrap attempt is running and none of its puts is still in flight.
BootSettled == boot = NoBoot /\ ~initPromise /\ detached = {}

\* C36: whenever the store is at rest, also after an attempt of which only
\* some default puts succeeded, a stored metadata record comes with stored
\* routes and stored flags, so that the metadata test of a later bootstrap
\* stands for all three records.
C36_MetadataImpliesRoutesAndFlags ==
  (BootSettled /\ kv["metadata"].has) => (kv["routes"].has /\ kv["flags"].has)

(***************************************************************************)
(* C37.  The single-flight memo is cleared when the attempt settles.       *)
(***************************************************************************)
\* The step in which the attempt in flight settles.
Settles == boot.pc # "idle" /\ boot'.pc = "idle"

\* C37: the step that settles an attempt, successful or failed, clears
\* initPromise and releases every awaiting request; a request that arrives
\* while no attempt is in flight, also after a failed one, starts an attempt
\* of its own, which begins with the metadata read and settles without a put
\* only if that read found the record; and a request leaves the await of
\* ensureConfigInitialized only in the step that settles the attempt.
C37_MemoClearedOnSettle ==
  /\ [][Settles => (~initPromise' /\ \A r \in Slots : pc'[r] # "await_init")]_vars
  /\ [][\A r \in Slots :
          (pc[r] = "idle" /\ pc'[r] = "await_init" /\ ~initPromise)
          => (initPromise' /\ boot'.pc = "get" /\ boot'.owner = r)]_vars
  /\ [][(boot.pc = "get" /\ boot'.pc = "idle") => kv["metadata"].has]_vars
  /\ [][\A r \in Slots : (pc[r] = "await_init" /\ pc'[r] # "await_init") => Settles]_vars
  /\ [](~initPromise => boot = NoBoot)

\* C37 witness: an attempt failed and its error entry is in the log; the
\* request that arrived afterwards has started a new attempt, whose metadata
\* read is in flight.
C37_Witness ==
  /\ ActionsLogged("config.bootstrap.error") # {}
  /\ initPromise
  /\ boot.pc = "get"
  /\ pc[boot.owner] = "await_init"

(***************************************************************************)
(* C38.  A failed audit write does not fail the audited operation.         *)
(***************************************************************************)
\* The step in which the put of writeAudit, called by the handler of r, throws.
AuditPutThrows(r) == pc[r] = "audit" /\ fails' # fails

AuditLost(r) == \E i \in 1..Len(trace[r]) : trace[r][i] = "audit.failed"

\* C38: when the put of the audit entry throws, the handler still returns
\* its 200 response (with the reloaded etag where the endpoint returns one),
\* the log, the store and the held bundle are left as they were, and what the
\* mutation wrote and reloaded stays in effect: the store holds the
\* mutation's metadata record and the held bundle is the reloaded one,
\* built from what the store holds.  The log holds no entry of the request.
C38_AuditFailureSwallowed ==
  /\ [][\A r \in Slots :
          AuditPutThrows(r)
          => /\ pc'[r] = "done"
             /\ resp'[r].kind = "json"
             /\ resp'[r].status = 200
             /\ ReturnsEtag(r) => resp'[r].body = <<"ok", loc[r].result.etag>>
             /\ UNCHANGED <<audit, kv, cachedConfig>>]_vars
  /\ [](\A r \in Slots :
          (pc[r] = "done" /\ AuditLost(r))
          => /\ resp[r].status = 200
             /\ JSONparse(kv["metadata"].text) = loc[r].metadata
             /\ cachedConfig.etag = loc[r].result.etag
             /\ cachedConfig.etag = StoreEtag
             /\ \A x \in audit : JSONparse(x.text).serial # loc[r].serial)

\* C38 witness: a PATCH has stored the patched routes and its metadata, the
\* put of its audit entry threw, and the handler returned 200 with the etag
\* of the new content; the log is empty.
C38_Witness ==
  /\ pc[1] = "done"
  /\ loc[1].action = "routes.patch"
  /\ AuditLost(1)
  /\ resp[1] = JsonResponse(200, <<"ok", StoreEtag>>)
  /\ StoreEtag # EtagOfDefaults
  /\ JSONparse(kv["routes"].text) = loc[1].newRoutes
  /\ audit = {}

(***************************************************************************)
(* C39.  What PATCH changes, and what a PATCH or DELETE of an unknown id   *)
(* leaves alone.                                                           *)
(***************************************************************************)
StoredRoutes == JSONparse(kv["routes"].text)

HasId(routes, id) == \E i \in 1..Len(routes) : routes[i].id = id

FirstWithId(routes, id) ==
  CHOOSE i \in 1..Len(routes) : routes[i].id = id /\ \A j \in 1..(i - 1) : routes[j].id # id

\* rule merged with patch: each key the patch has comes from the patch, every
\* other key from the rule.
IsMergeOf(merged, rule, patch) ==
  /\ merged.id = (IF "id" \in patch.present THEN patch.id ELSE rule.id)
  /\ merged.enabled = (IF "enabled" \in patch.present THEN patch.enabled ELSE rule.enabled)
  /\ merged.match = (IF "match" \in patch.present THEN patch.match ELSE rule.match)
  /\ merged.action = (IF "action" \in patch.present THEN patch.action ELSE rule.action)

\* The step in which the routes put of the PATCH handled by r completes.
PatchWrites(r) == pc[r] = "w_routes" /\ loc[r].action = "routes.patch" /\ kv' # kv

\* The step in which the PATCH or DELETE handled by r looks its id up.
LooksUp(r) == pc[r] \in {"patch", "delete"} /\ pc'[r] # pc[r]

NotFound == JsonResponse(404, <<"error", "not_found">>)

\* C39: the routes put of a PATCH stores a list of the same length in which
\* the first rule with the id is the merge of that rule with the patch and
\* every other position holds what it held, flags and metadata untouched by
\* that put, and a PATCH that returns 200 leaves that list stored; a PATCH or
\* DELETE whose id no stored rule has returns 404 not_found in the step that
\* looks the id up, which leaves store, held bundle and log as they are, and
\* the request as a whole has put nothing, invalidated nothing and logged
\* nothing.
C39_PatchFrame ==
  /\ [][\A r \in Slots :
          PatchWrites(r)
          => LET old == StoredRoutes
                 new == JSONparse(kv'["routes"].text)
                 id == Last(req[r].pathname)
                 i == FirstWithId(old, id)
             IN /\ HasId(old, id)
                /\ Len(new) = Len(old)
                /\ \A j \in 1..Len(old) : j # i => new[j] = old[j]
                /\ IsMergeOf(new[i], old[i], req[r].body.patch)
                /\ kv'["flags"] = kv["flags"]
                /\ kv'["metadata"] = kv["metadata"]]_vars
  /\ [][\A r \in Slots :
          (LooksUp(r) /\ ~HasId(StoredRoutes, Last(req[r].pathname)))
          => /\ pc'[r] = "done"
             /\ resp'[r] = NotFound
             /\ UNCHANGED <<kv, audit, cachedConfig>>]_vars
  /\ [](\A r \in Slots :
          (pc[r] = "done" /\ loc[r].action \in {"routes.patch", "routes.delete"})
          => /\ resp[r] = NotFound
                => /\ \A i \in 1..Len(trace[r]) : trace[r][i] \in {"load.fetch", "load.patch", "load.delete"}
                   /\ ~cachedConfig.isNull
                   /\ cachedConfig.routes = StoredRoutes
             /\ (resp[r].status = 200 /\ loc[r].action = "routes.patch")
                => /\ StoredRoutes = loc[r].newRoutes
                   /\ Len(StoredRoutes) = Len(loc[r].current.routes))

\* C39 witness: the store held rule-promo twice with the default rule in
\* between; PATCH /api/routes/rule-promo {enabled: false} returned 200, the
\* first rule is disabled and the third still carries enabled: true.
C39_Witness ==
  /\ pc[1] = "done"
  /\ loc[1].action = "routes.patch"
  /\ resp[1].status = 200
  /\ Len(StoredRoutes) = 3
  /\ StoredRoutes[1] = [RulePromo EXCEPT !.enabled = "false", !.present = @ \cup {"enabled"}]
  /\ StoredRoutes[2] = DEFAULT_ROUTES[1]
  /\ StoredRoutes[3] = RulePromoOn

(***************************************************************************)
(* C40.  Two concurrent PATCH requests for different rules.                *)
(***************************************************************************)
\* The PATCH handled by r has returned success.
Patched200(r) == pc[r] = "done" /\ loc[r].action = "routes.patch" /\ resp[r].status = 200

\* The stored rule with the id of r's request carries r's patch.
CarriesPatch(r) ==
  LET id == Last(req[r].pathname)
  IN /\ HasId(StoredRoutes, id)
     /\ HasId(RoutesPromo, id)
     /\ IsMergeOf(StoredRoutes[FirstWithId(StoredRoutes, id)],
                  RoutesPromo[FirstWithId(RoutesPromo, id)], req[r].body.patch)

\* C40: when the two PATCH requests, for two different ids, have both
\* returned success, the stored routes carry both patches.
C40_BothPatchesStored ==
  (\A r \in Slots : Patched200(r)) => (\A r \in Slots : CarriesPatch(r))

====
